---------------------------- MODULE Spec2Model ----------------------------
(***************************************************************************)
(* Faceted filter engine of the indigenous-communities map:                *)
(*   - Map.tsx      extractLayerData (feature index), applyMapFilters,     *)
(*                  applyFilterZoom                                        *)
(*   - Sidebar      (src/unnamed/part_000) validateFilters,                *)
(*                  synchronizeFilters, option lists, getFilteredCount,    *)
(*                  the filter handlers and the dependent-filter effects.  *)
(*                                                                         *)
(* JavaScript strings are TLA+ strings; a missing property (undefined) is  *)
(* the value Undefined.  A JavaScript Set or a de-duplicated array is a    *)
(* set, a JavaScript Map is a function whose DOMAIN is the key set, and a  *)
(* nullable object is a sequence of length 0 (null) or 1.                  *)
(***************************************************************************)
EXTENDS Integers, Sequences, FiniteSets, Bags, TLC

VARIABLES
    rawFeatures,    \* what map.querySourceFeatures returned to extractLayerData
    extractedData,  \* App.extractedData, the Sidebar's extractedData prop
    filters,        \* Sidebar state `filters`
    searchTerms,    \* Sidebar state `searchTerms`
    prevDeps,       \* the hook dependencies of the previous Sidebar render
    pendingRender,  \* a state update is queued: render + effects still to run
    call,           \* the last function applied, with its inputs and result
    layerFilter,    \* the filter expression set on the INPI layer (<<>> = null)
    zoomFeatures,   \* the features applyFilterZoom last kept (positions in features)
    appFilters,     \* App state `filters`, the Map's filters prop
    debounce,       \* the pending 50 ms propagation timer: <<>> or <<payload>>
    forced,         \* the pending 100 ms and 150 ms timers, a bag of [delay, payload]
    loader,         \* the Map's initial load: extractAttempts, pending timers, counts
    measure,        \* the Map's measurement state and its pending route requests
    style,          \* the Map's style flags, the theme prop and the style last set
    viewer          \* the HtmlViewer's props, state and pending fetches

vars == <<rawFeatures, extractedData, filters, searchTerms, prevDeps,
          pendingRender, call, layerFilter, zoomFeatures, appFilters,
          debounce, forced, loader, measure, style, viewer>>

\* The measurement tools, the base style and the HTML viewer.
uiVars == <<measure, style, viewer>>

\* What App and the timers hold.
appVars == <<appFilters, debounce, forced>>

---------------------------------------------------------------------------
(* JavaScript values                                                       *)

Undefined == "<undefined>"

\* JavaScript truthiness of a string-or-undefined value.
Truthy(v) == v # Undefined /\ v # ""

\* a || b
Or(a, b) == IF Truthy(a) THEN a ELSE b

RECURSIVE TrimLeft(_)
TrimLeft(s) ==
    IF Len(s) > 0 /\ SubSeq(s, 1, 1) = " "
    THEN TrimLeft(SubSeq(s, 2, Len(s)))
    ELSE s

RECURSIVE TrimRight(_)
TrimRight(s) ==
    IF Len(s) > 0 /\ SubSeq(s, Len(s), Len(s)) = " "
    THEN TrimRight(SubSeq(s, 1, Len(s) - 1))
    ELSE s

\* String.prototype.trim
Trim(s) == TrimRight(TrimLeft(s))

Upper == "ABCDEFGHIJKLMNOPQRSTUVWXYZ"
Lower == "abcdefghijklmnopqrstuvwxyz"

LowerChar(c) ==
    IF \E i \in 1..Len(Upper) : SubSeq(Upper, i, i) = c
    THEN LET i == CHOOSE j \in 1..Len(Upper) : SubSeq(Upper, j, j) = c
         IN  SubSeq(Lower, i, i)
    ELSE c

RECURSIVE ToLowerCase(_)
ToLowerCase(s) ==
    IF Len(s) = 0 THEN s
    ELSE LowerChar(SubSeq(s, 1, 1)) \o ToLowerCase(SubSeq(s, 2, Len(s)))

\* String.prototype.includes
Includes(s, t) ==
    \E i \in 1..(Len(s) + 1) :
        i + Len(t) - 1 <= Len(s) /\ SubSeq(s, i, i + Len(t) - 1) = t

---------------------------------------------------------------------------
(* Property keys of a feature (Map.tsx) and the filter state               *)

\* Property keys of the layer's features.
ENT_KEY == "NOM_ENT"
MUN_KEY == "NOM_MUN"
COM_KEY == "NOM_COM"
LOC_KEY == "NOM_LOC"
PUE_KEY == "Pueblo"

Fields == {"entidad", "municipio", "comunidad", "pueblo"}

EmptyFilters ==
    [entidad |-> "", municipio |-> "", comunidad |-> "", pueblo |-> ""]

\* props.NOM_COM || props.NOM_LOC
ComunidadOf(props) == Or(props.NOM_COM, props.NOM_LOC)

\* The elements of a sequence.
Range(s) == {s[i] : i \in 1..Len(s)}

---------------------------------------------------------------------------
(* Map.tsx: extractLayerData, the feature index                            *)

\* const idVal = f?.properties?.[ID_KEY] ?? f?.id;
\* const id = idVal != null ? String(idVal) : '';
FeatureId(f) ==
    LET idVal == IF f.ID # Undefined THEN f.ID ELSE f.id
    IN  IF idVal # Undefined THEN idVal ELSE ""

\* A de-duplication that treats the missing id as an id like any other:
\* the fault C12 is stated against.
RECURSIVE DedupFrom_MergesIdless(_, _)
DedupFrom_MergesIdless(s, seen) ==
    IF s = <<>> THEN <<>>
    ELSE LET id == FeatureId(Head(s))
         IN  IF id \in seen THEN DedupFrom_MergesIdless(Tail(s), seen)
             ELSE <<Head(s)>> \o DedupFrom_MergesIdless(Tail(s), seen \cup {id})

\* allFeatures.filter(...) with the `seen` set: first occurrence per id,
\* records without id always kept.
RECURSIVE DedupFrom(_, _)
DedupFrom(s, seen) ==
    IF s = <<>> THEN <<>>
    ELSE LET id == FeatureId(Head(s))
         IN  IF id = "" THEN <<Head(s)>> \o DedupFrom(Tail(s), seen)
             ELSE IF id \in seen THEN DedupFrom(Tail(s), seen)
             ELSE <<Head(s)>> \o DedupFrom(Tail(s), seen \cup {id})

UniqueFeatures(allFeatures) == DedupFrom(allFeatures, {})

\* The four trimmed facet values extractLayerData reads from one feature.
IndexedEntidad(f)   == Trim(Or(f.NOM_ENT, ""))
IndexedMunicipio(f) == Trim(Or(f.NOM_MUN, ""))
IndexedComunidad(f) == Trim(Or(Or(f.NOM_COM, f.NOM_LOC), ""))
IndexedPueblo(f)    == Trim(Or(f.Pueblo, ""))

\* `${entidad}|${municipio}`
MunicipioKey(entidad, municipio) == entidad \o "|" \o municipio

\* An index whose sets are filled before the duplicates are dropped: the
\* fault C13 is stated against.
BuildIndex_IndexesBeforeDedup(allFeatures) ==
    LET fs     == Range(allFeatures)
        withEnt == {f \in fs : IndexedEntidad(f) # ""}
        withMun == {f \in withEnt : IndexedMunicipio(f) # ""}
        withCom == {f \in withMun : IndexedComunidad(f) # ""}
        munKeys == {IndexedEntidad(f) : f \in withMun}
        comKeys == {MunicipioKey(IndexedEntidad(f), IndexedMunicipio(f)) :
                        f \in withCom}
    IN  [entidades |-> {IndexedEntidad(f) : f \in withEnt},
         municipiosPorEntidad |->
            [e \in munKeys |->
                {IndexedMunicipio(f) : f \in {g \in withMun : IndexedEntidad(g) = e}}],
         comunidadesPorMunicipio |->
            [k \in comKeys |->
                {IndexedComunidad(f) :
                    f \in {g \in withCom :
                        MunicipioKey(IndexedEntidad(g), IndexedMunicipio(g)) = k}}],
         pueblos |-> {IndexedPueblo(f) : f \in {g \in fs : IndexedPueblo(g) # ""}},
         features |-> UniqueFeatures(allFeatures)]

\* An index that records a people only under a state: the fault C14 is
\* stated against.
BuildIndex_PeoplesUnderState(allFeatures) ==
    LET unique == UniqueFeatures(allFeatures)
        fs     == Range(unique)
        withEnt == {f \in fs : IndexedEntidad(f) # ""}
        withMun == {f \in withEnt : IndexedMunicipio(f) # ""}
        withCom == {f \in withMun : IndexedComunidad(f) # ""}
        munKeys == {IndexedEntidad(f) : f \in withMun}
        comKeys == {MunicipioKey(IndexedEntidad(f), IndexedMunicipio(f)) :
                        f \in withCom}
    IN  [entidades |-> {IndexedEntidad(f) : f \in withEnt},
         municipiosPorEntidad |->
            [e \in munKeys |->
                {IndexedMunicipio(f) : f \in {g \in withMun : IndexedEntidad(g) = e}}],
         comunidadesPorMunicipio |->
            [k \in comKeys |->
                {IndexedComunidad(f) :
                    f \in {g \in withCom :
                        MunicipioKey(IndexedEntidad(g), IndexedMunicipio(g)) = k}}],
         pueblos |-> {IndexedPueblo(f) : f \in {g \in withEnt : IndexedPueblo(g) # ""}},
         features |-> unique]

\* An index that files a community whether or not the record names a
\* municipality: the fault C33 is stated against.
BuildIndex_ComunidadWithoutMunicipio(allFeatures) ==
    LET unique == UniqueFeatures(allFeatures)
        fs     == Range(unique)
        withEnt == {f \in fs : IndexedEntidad(f) # ""}
        withMun == {f \in withEnt : IndexedMunicipio(f) # ""}
        withCom == {f \in withEnt : IndexedComunidad(f) # ""}
        munKeys == {IndexedEntidad(f) : f \in withMun}
        comKeys == {MunicipioKey(IndexedEntidad(f), IndexedMunicipio(f)) :
                        f \in withCom}
    IN  [entidades |-> {IndexedEntidad(f) : f \in withEnt},
         municipiosPorEntidad |->
            [e \in munKeys |->
                {IndexedMunicipio(f) : f \in {g \in withMun : IndexedEntidad(g) = e}}],
         comunidadesPorMunicipio |->
            [k \in comKeys |->
                {IndexedComunidad(f) :
                    f \in {g \in withCom :
                        MunicipioKey(IndexedEntidad(g), IndexedMunicipio(g)) = k}}],
         pueblos |-> {IndexedPueblo(f) : f \in {g \in fs : IndexedPueblo(g) # ""}},
         features |-> unique]

\* An index that files a municipality and its community whether or not the
\* record names a state: the fault C26 is stated against.
BuildIndex_MunicipioWithoutEntidad(allFeatures) ==
    LET unique == UniqueFeatures(allFeatures)
        fs     == Range(unique)
        withEnt == {f \in fs : IndexedEntidad(f) # ""}
        withMun == {f \in fs : IndexedMunicipio(f) # ""}
        withCom == {f \in withMun : IndexedComunidad(f) # ""}
        munKeys == {IndexedEntidad(f) : f \in withMun}
        comKeys == {MunicipioKey(IndexedEntidad(f), IndexedMunicipio(f)) :
                        f \in withCom}
    IN  [entidades |-> {IndexedEntidad(f) : f \in withEnt},
         municipiosPorEntidad |->
            [e \in munKeys |->
                {IndexedMunicipio(f) : f \in {g \in withMun : IndexedEntidad(g) = e}}],
         comunidadesPorMunicipio |->
            [k \in comKeys |->
                {IndexedComunidad(f) :
                    f \in {g \in withCom :
                        MunicipioKey(IndexedEntidad(g), IndexedMunicipio(g)) = k}}],
         pueblos |-> {IndexedPueblo(f) : f \in {g \in fs : IndexedPueblo(g) # ""}},
         features |-> unique]

\* The ExtractedData object built by extractLayerData from the raw features.
BuildIndex(allFeatures) ==
    LET unique == UniqueFeatures(allFeatures)
        fs     == Range(unique)
        withEnt == {f \in fs : IndexedEntidad(f) # ""}
        withMun == {f \in withEnt : IndexedMunicipio(f) # ""}
        withCom == {f \in withMun : IndexedComunidad(f) # ""}
        munKeys == {IndexedEntidad(f) : f \in withMun}
        comKeys == {MunicipioKey(IndexedEntidad(f), IndexedMunicipio(f)) :
                        f \in withCom}
    IN  [entidades |-> {IndexedEntidad(f) : f \in withEnt},
         municipiosPorEntidad |->
            [e \in munKeys |->
                {IndexedMunicipio(f) : f \in {g \in withMun : IndexedEntidad(g) = e}}],
         comunidadesPorMunicipio |->
            [k \in comKeys |->
                {IndexedComunidad(f) :
                    f \in {g \in withCom :
                        MunicipioKey(IndexedEntidad(g), IndexedMunicipio(g)) = k}}],
         pueblos |-> {IndexedPueblo(f) : f \in {g \in fs : IndexedPueblo(g) # ""}},
         features |-> unique]

\* map.get(key) || new Set()
MapGet(m, key) == IF key \in DOMAIN m THEN m[key] ELSE {}

\* extractedData as a nullable value.
NoData == <<>>
HasData(data) == data # NoData
Features(data) == Range(data[1].features)
LoadedFeaturesOf(data) == IF HasData(data) THEN Features(data) ELSE {}

---------------------------------------------------------------------------
(* Sidebar: validateFilters                                                *)

validateFilters(currentFilters, data) ==
    IF ~HasData(data) THEN currentFilters
    ELSE
    LET d  == data[1]
        v1 == IF Truthy(currentFilters.entidad)
                 /\ currentFilters.entidad \notin d.entidades
              THEN [currentFilters EXCEPT !.entidad = "", !.municipio = "",
                                          !.comunidad = ""]
              ELSE currentFilters
        v2 == IF Truthy(v1.entidad) /\ Truthy(v1.municipio)
                 /\ v1.municipio \notin MapGet(d.municipiosPorEntidad, v1.entidad)
              THEN [v1 EXCEPT !.municipio = "", !.comunidad = ""]
              ELSE v1
        v3 == IF Truthy(v2.entidad) /\ Truthy(v2.municipio) /\ Truthy(v2.comunidad)
                 /\ v2.comunidad \notin
                        MapGet(d.comunidadesPorMunicipio,
                               MunicipioKey(v2.entidad, v2.municipio))
              THEN [v2 EXCEPT !.comunidad = ""]
              ELSE v2
        v4 == IF Truthy(v3.pueblo) /\ v3.pueblo \notin d.pueblos
              THEN [v3 EXCEPT !.pueblo = ""]
              ELSE v3
    IN  v4

---------------------------------------------------------------------------
(* Sidebar: synchronizeFilters                                             *)

\* A state branch that forgets to clear the municipality: the fault C3
\* is stated against.
SyncEntidad_KeepsMunicipio(value, newFilters, features) ==
    LET f1 == [newFilters EXCEPT !.comunidad = ""]
        esPuebloCompatible ==
            \E p \in features : p.NOM_ENT = value /\ p.Pueblo = f1.pueblo
    IN  IF Truthy(f1.pueblo) /\ ~esPuebloCompatible
        THEN [f1 EXCEPT !.pueblo = ""]
        ELSE f1

\* A state branch that clears one level at a time, the community only
\* once the municipality is empty: the fault C28 is stated against.
SyncEntidad_OneLevelPerPass(value, newFilters, features) ==
    LET f1 == IF Truthy(newFilters.municipio)
              THEN [newFilters EXCEPT !.municipio = ""]
              ELSE [newFilters EXCEPT !.comunidad = ""]
        esPuebloCompatible ==
            \E p \in features : p.NOM_ENT = value /\ p.Pueblo = f1.pueblo
    IN  IF Truthy(f1.pueblo) /\ ~esPuebloCompatible
        THEN [f1 EXCEPT !.pueblo = ""]
        ELSE f1

\* A state branch that keeps a people the new state does not have: the
\* fault C22 is stated against.
SyncEntidad_KeepsPueblo(value, newFilters, features) ==
    [newFilters EXCEPT !.municipio = "", !.comunidad = ""]

\* field === 'entidad'
SyncEntidad(value, newFilters, features) ==
    LET f1 == [newFilters EXCEPT !.municipio = "", !.comunidad = ""]
        esPuebloCompatible ==
            \E p \in features : p.NOM_ENT = value /\ p.Pueblo = f1.pueblo
    IN  IF Truthy(f1.pueblo) /\ ~esPuebloCompatible
        THEN [f1 EXCEPT !.pueblo = ""]
        ELSE f1

\* field === 'municipio'
SyncMunicipio(value, newFilters, features) ==
    LET f1 == [newFilters EXCEPT !.comunidad = ""]
        esPuebloCompatible ==
            \E p \in features :
                /\ p.NOM_ENT = f1.entidad
                /\ p.NOM_MUN = value
                /\ p.Pueblo = f1.pueblo
    IN  IF Truthy(f1.pueblo) /\ Truthy(f1.entidad) /\ ~esPuebloCompatible
        THEN [f1 EXCEPT !.pueblo = ""]
        ELSE f1

\* A community branch that drops the municipality when the people does not
\* fit: the fault C30 is stated against.
SyncComunidad_ClearsMunicipio(value, newFilters, features) ==
    LET esPuebloCompatible ==
            \E p \in features :
                /\ p.NOM_ENT = newFilters.entidad
                /\ p.NOM_MUN = newFilters.municipio
                /\ ComunidadOf(p) = value
                /\ p.Pueblo = newFilters.pueblo
    IN  IF /\ Truthy(newFilters.pueblo) /\ Truthy(newFilters.entidad)
           /\ Truthy(newFilters.municipio) /\ ~esPuebloCompatible
        THEN [newFilters EXCEPT !.municipio = ""]
        ELSE newFilters

\* field === 'comunidad'
SyncComunidad(value, newFilters, features) ==
    LET esPuebloCompatible ==
            \E p \in features :
                /\ p.NOM_ENT = newFilters.entidad
                /\ p.NOM_MUN = newFilters.municipio
                /\ ComunidadOf(p) = value
                /\ p.Pueblo = newFilters.pueblo
    IN  IF /\ Truthy(newFilters.pueblo) /\ Truthy(newFilters.entidad)
           /\ Truthy(newFilters.municipio) /\ ~esPuebloCompatible
        THEN [newFilters EXCEPT !.pueblo = ""]
        ELSE newFilters

\* A people branch that completes an empty hierarchy from a feature of the
\* people: the fault C7 is stated against.
SyncPueblo_AutoFill(value, newFilters, features) ==
    LET carriers == {p \in features : p.Pueblo = value}
        first    == CHOOSE p \in carriers : TRUE
    IN  IF /\ Truthy(value) /\ carriers # {}
           /\ ~Truthy(newFilters.entidad) /\ ~Truthy(newFilters.municipio)
           /\ ~Truthy(newFilters.comunidad)
        THEN [entidad |-> first.NOM_ENT, municipio |-> first.NOM_MUN,
              comunidad |-> ComunidadOf(first), pueblo |-> value]
        ELSE newFilters

\* A people branch that resets the hierarchy when people is emptied: the
\* fault C8 is stated against.
SyncPueblo_ClearsHierarchy(value, newFilters, features) ==
    IF Truthy(value) /\ Trim(value) # "" THEN newFilters ELSE EmptyFilters

\* field === 'pueblo'
SyncPueblo(value, newFilters, features) ==
    LET entidad   == newFilters.entidad
        municipio == newFilters.municipio
        comunidad == newFilters.comunidad
        esPuebloCompatible ==
            \E p \in features :
                /\ (~Truthy(entidad) \/ p.NOM_ENT = entidad)
                /\ (~Truthy(municipio) \/ p.NOM_MUN = municipio)
                /\ (~Truthy(comunidad) \/ ComunidadOf(p) = comunidad)
                /\ p.Pueblo = value
        entidadCompatible ==
            \E p \in features : p.NOM_ENT = entidad /\ p.Pueblo = value
        f1 == IF Truthy(entidad) /\ ~entidadCompatible
              THEN [newFilters EXCEPT !.entidad = "", !.municipio = "",
                                      !.comunidad = ""]
              ELSE newFilters
        municipioCompatible ==
            \E p \in features :
                /\ p.NOM_ENT = f1.entidad
                /\ p.NOM_MUN = municipio
                /\ p.Pueblo = value
        f2 == IF Truthy(f1.entidad) /\ Truthy(municipio) /\ ~municipioCompatible
              THEN [f1 EXCEPT !.municipio = "", !.comunidad = ""]
              ELSE f1
        comunidadCompatible ==
            \E p \in features :
                /\ p.NOM_ENT = f2.entidad
                /\ p.NOM_MUN = f2.municipio
                /\ ComunidadOf(p) = comunidad
                /\ p.Pueblo = value
        f3 == IF /\ Truthy(f2.entidad) /\ Truthy(f2.municipio)
                 /\ Truthy(comunidad) /\ ~comunidadCompatible
              THEN [f2 EXCEPT !.comunidad = ""]
              ELSE f2
    IN  IF Truthy(value) /\ Trim(value) # ""
        THEN IF Truthy(entidad) \/ Truthy(municipio) \/ Truthy(comunidad)
             THEN IF esPuebloCompatible THEN newFilters ELSE f3
             ELSE newFilters
        ELSE newFilters

\* The closing normalisation: with no filter left, the canonical empty state.
Normalize(newFilters) ==
    LET hasAnyFilter ==
            \/ Truthy(newFilters.entidad) \/ Truthy(newFilters.municipio)
            \/ Truthy(newFilters.comunidad) \/ Truthy(newFilters.pueblo)
    IN  IF ~hasAnyFilter THEN EmptyFilters ELSE newFilters

\* A reconciler that applies the edit when no index is loaded: the fault
\* C32 is stated against.
synchronizeFilters_AppliesWithoutData(field, value, currentFilters, data) ==
    LET newFilters == [currentFilters EXCEPT ![field] = value]
    IN  IF ~HasData(data) THEN newFilters
        ELSE
        LET features == Features(data)
            synced ==
                CASE field = "entidad"   -> SyncEntidad(value, newFilters, features)
                  [] field = "municipio" -> SyncMunicipio(value, newFilters, features)
                  [] field = "comunidad" -> SyncComunidad(value, newFilters, features)
                  [] field = "pueblo"    -> SyncPueblo(value, newFilters, features)
        IN  Normalize(synced)

synchronizeFilters(field, value, currentFilters, data) ==
    IF ~HasData(data) THEN currentFilters
    ELSE
    LET features   == Features(data)
        newFilters == [currentFilters EXCEPT ![field] = value]
        synced ==
            CASE field = "entidad"   -> SyncEntidad(value, newFilters, features)
              [] field = "municipio" -> SyncMunicipio(value, newFilters, features)
              [] field = "comunidad" -> SyncComunidad(value, newFilters, features)
              [] field = "pueblo"    -> SyncPueblo(value, newFilters, features)
    IN  Normalize(synced)

---------------------------------------------------------------------------
(* Sidebar: option lists (as sets: the collation order is presentation)    *)

sortedEntidades(f, data) ==
    IF ~HasData(data) THEN {}
    ELSE IF Truthy(f.pueblo)
    THEN {p.NOM_ENT : p \in {q \in Features(data) :
                                q.Pueblo = f.pueblo /\ Truthy(q.NOM_ENT)}}
    ELSE data[1].entidades

sortedMunicipios(f, data) ==
    IF ~HasData(data) \/ ~Truthy(f.entidad) THEN {}
    ELSE IF Truthy(f.pueblo)
    THEN {p.NOM_MUN : p \in {q \in Features(data) :
                                /\ q.Pueblo = f.pueblo
                                /\ q.NOM_ENT = f.entidad
                                /\ Truthy(q.NOM_MUN)}}
    ELSE MapGet(data[1].municipiosPorEntidad, f.entidad)

sortedComunidades(f, data) ==
    IF ~HasData(data) \/ ~Truthy(f.entidad) \/ ~Truthy(f.municipio) THEN {}
    ELSE IF Truthy(f.pueblo)
    THEN {ComunidadOf(p) : p \in {q \in Features(data) :
                                /\ q.Pueblo = f.pueblo
                                /\ q.NOM_ENT = f.entidad
                                /\ q.NOM_MUN = f.municipio
                                /\ Truthy(ComunidadOf(q))}}
    ELSE MapGet(data[1].comunidadesPorMunicipio,
                MunicipioKey(f.entidad, f.municipio))

\* A people list that looks at the selected state only: the fault C19 is
\* stated against.
filteredPueblosByHierarchy_StateOnly(f, data) ==
    IF ~HasData(data) THEN {}
    ELSE IF ~Truthy(f.entidad) /\ ~Truthy(f.municipio) /\ ~Truthy(f.comunidad)
    THEN data[1].pueblos
    ELSE {p.Pueblo : p \in {q \in Features(data) :
                                /\ (~Truthy(f.entidad) \/ q.NOM_ENT = f.entidad)
                                /\ Truthy(q.Pueblo)}}

filteredPueblosByHierarchy(f, data) ==
    IF ~HasData(data) THEN {}
    ELSE IF ~Truthy(f.entidad) /\ ~Truthy(f.municipio) /\ ~Truthy(f.comunidad)
    THEN data[1].pueblos
    ELSE {p.Pueblo : p \in {q \in Features(data) :
                                /\ (~Truthy(f.entidad) \/ q.NOM_ENT = f.entidad)
                                /\ (~Truthy(f.municipio) \/ q.NOM_MUN = f.municipio)
                                /\ (~Truthy(f.comunidad) \/ ComunidadOf(q) = f.comunidad)
                                /\ Truthy(q.Pueblo)}}

\* The option list of one facet before the search term narrows it.
SortedOptions(field, f, data) ==
    CASE field = "entidad"   -> sortedEntidades(f, data)
      [] field = "municipio" -> sortedMunicipios(f, data)
      [] field = "comunidad" -> sortedComunidades(f, data)
      [] field = "pueblo"    -> filteredPueblosByHierarchy(f, data)

\* filteredEntidades, filteredMunicipios, filteredComunidades, filteredPueblos
FilteredOptions(field, f, terms, data) ==
    IF ~Truthy(terms[field]) THEN SortedOptions(field, f, data)
    ELSE {o \in SortedOptions(field, f, data) :
            Includes(ToLowerCase(o), ToLowerCase(terms[field]))}

\* The `disabled` argument renderDropdown receives for a facet.
Disabled(field, f, data) ==
    CASE field = "municipio" -> sortedMunicipios(f, data) = {}
      [] field = "comunidad" -> sortedComunidades(f, data) = {}
      [] OTHER -> FALSE

\* A predicate that accepts a feature as soon as one set facet matches: the
\* fault C16 is stated against.
CountAccepts_AnyFacet(props, f) ==
    \/ \A g \in Fields : ~(Truthy(f[g]) /\ Trim(f[g]) # "")
    \/ (Truthy(f.entidad) /\ Trim(f.entidad) # "" /\ props.NOM_ENT = f.entidad)
    \/ (Truthy(f.municipio) /\ Trim(f.municipio) # ""
            /\ props.NOM_MUN = f.municipio)
    \/ (Truthy(f.comunidad) /\ Trim(f.comunidad) # ""
            /\ ComunidadOf(props) = f.comunidad)
    \/ (Truthy(f.pueblo) /\ Trim(f.pueblo) # "" /\ props.Pueblo = f.pueblo)

\* The predicate inside getFilteredCount.
CountAccepts(props, f) ==
    /\ (Truthy(f.entidad) /\ Trim(f.entidad) # "") => props.NOM_ENT = f.entidad
    /\ (Truthy(f.municipio) /\ Trim(f.municipio) # "") => props.NOM_MUN = f.municipio
    /\ (Truthy(f.comunidad) /\ Trim(f.comunidad) # "") =>
            ComunidadOf(props) = f.comunidad
    /\ (Truthy(f.pueblo) /\ Trim(f.pueblo) # "") => props.Pueblo = f.pueblo

\* A count that looks at the first feature only: the fault C15 is stated
\* against.
getFilteredCount_FirstOnly(f, data) ==
    IF ~HasData(data) \/ data[1].features = <<>> THEN 0
    ELSE IF CountAccepts(Head(data[1].features), f) THEN 1 ELSE 0

getFilteredCount(f, data) ==
    IF ~HasData(data) THEN 0
    ELSE Len(SelectSeq(data[1].features, LAMBDA p : CountAccepts(p, f)))

---------------------------------------------------------------------------
(* Inputs                                                                  *)

\* The measurement tools as the Map mounts them: both modes off, no point,
\* no route, no line, no route request in flight.
NoMeasure ==
    [isMeasuring |-> FALSE, isMeasuringLine |-> FALSE, currentPoints |-> 0,
     currentLinePoints |-> 0, routesData |-> 0, linesData |-> 0,
     requests |-> 0]

\* getCurrentStyleUrl(): the style the flags ask for.
getCurrentStyleUrl(isSatellite, is3D, isDarkTheme) ==
    IF isSatellite THEN "satelliteStyleUrl"
    ELSE IF is3D THEN "outdoor3DStyleUrl"
    ELSE IF isDarkTheme THEN "darkStyleUrl" ELSE "lightStyleUrl"

\* The Map as it is constructed under the light theme: style:
\* getCurrentStyleUrl(), still loading.
InitialStyle ==
    [isSatellite |-> FALSE, is3D |-> FALSE, isDarkTheme |-> FALSE,
     applied |-> getCurrentStyleUrl(FALSE, FALSE, FALSE), loaded |-> FALSE]

\* The HtmlViewer as it mounts: closed, nothing fetched.
NoViewer ==
    [isOpen |-> FALSE, communityId |-> "", htmlContent |-> "", error |-> "",
     loading |-> FALSE, pending |-> EmptyBag]

\* The Map before its load event: nothing scheduled, nothing extracted.
NoLoader ==
    [extractAttempts |-> 0, tryExtractData |-> FALSE, extractTimers |-> 0,
     idleArmed |-> FALSE, idleTimer |-> FALSE, layer |-> FALSE,
     runs |-> 0, published |-> 0]

\* Longest raw feature list drawn.
MaxFeatures == 2

\* A set as a list, in some fixed order.
RECURSIVE SetToSeq(_)
SetToSeq(S) ==
    IF S = {} THEN <<>>
    ELSE LET x == CHOOSE y \in S : TRUE
         IN  <<x>> \o SetToSeq(S \ {x})

\* The lists of 1..n distinct features of a pool, one per set of features.
\* The Sidebar reads extractedData.features only through some, forEach and
\* filter(...).length, and these features carry no id, so neither their
\* order nor a repeated record changes anything it computes.
FeatureLists(pool, n) ==
    {SetToSeq(S) : S \in {T \in SUBSET pool : Cardinality(T) \in 1..n}}

\* Features the reconciler is exercised on: two states with the same
\* municipality names, a community named by NOM_COM or only by NOM_LOC.
SyncPool ==
    {[id |-> Undefined, ID |-> Undefined, NOM_ENT |-> e, NOM_MUN |-> m,
      NOM_COM |-> com[1], NOM_LOC |-> com[2], Pueblo |-> p] :
        e \in {"E1", "E2"}, m \in {"M1", "M2"},
        com \in {<<"C1", Undefined>>, <<Undefined, "C2">>},
        p \in {"P1", "P2"}}

\* Features the map source returns to the running application: two peoples
\* in one municipality of E1, the first of them also in E2.  P1 names its
\* community in NOM_COM, P2 in NOM_LOC.
LoadFeature(e, p) ==
    [id |-> Undefined, ID |-> Undefined, NOM_ENT |-> e, NOM_MUN |-> "M1",
     NOM_COM |-> IF p = "P1" THEN "C1" ELSE Undefined,
     NOM_LOC |-> IF p = "P1" THEN Undefined ELSE "C2", Pueblo |-> p]

LoadPool == {LoadFeature("E1", "P1"), LoadFeature("E1", "P2"),
             LoadFeature("E2", "P1")}

\* Values a facet of an input selection, or an edit, may take.
FacetValues ==
    [entidad   |-> {"", "E1", "E2"},
     municipio |-> {"", "M1", "M2"},
     comunidad |-> {"", "C1", "C2"},
     pueblo    |-> {"", " ", "P1", "P2"}]

Selections ==
    [entidad : FacetValues.entidad, municipio : FacetValues.municipio,
     comunidad : FacetValues.comunidad, pueblo : FacetValues.pueblo]

\* The text a facet input is changed to: nothing (the user deletes it).
TypedTexts == {""}

\* The dependencies of the first render.
InitialDeps ==
    [entidad |-> "", municipio |-> "", comunidad |-> "", pueblo |-> "",
     sameData |-> TRUE, sameFilters |-> TRUE, sameCallback |-> TRUE]

\* Most 100 ms and 150 ms timers pending at once.
MaxTimers == 1

NoCall == [op |-> "none", field |-> "", value |-> "", cur |-> EmptyFilters,
           out |-> EmptyFilters]

---------------------------------------------------------------------------
(* SpecSync: the reconciler as a function of (index, selection, edit)      *)

InitSync ==
    /\ \E loaded \in BOOLEAN :
          IF loaded
          THEN \E l \in FeatureLists(SyncPool, MaxFeatures) :
                  /\ rawFeatures = l
                  /\ extractedData = <<BuildIndex(l)>>
          ELSE rawFeatures = <<>> /\ extractedData = NoData
    /\ filters \in Selections
    /\ searchTerms = EmptyFilters
    /\ prevDeps = InitialDeps
    /\ pendingRender = FALSE
    /\ call = NoCall
    /\ layerFilter = <<>>
    /\ zoomFeatures = {}
    /\ appFilters = EmptyFilters
    /\ debounce = <<>>
    /\ forced = EmptyBag
    /\ loader = NoLoader
    /\ measure = NoMeasure
    /\ style = InitialStyle
    /\ viewer = NoViewer

\* synchronizeFilters(field, value, filters), the result kept as the selection;
\* validateFilters(filters) is computed on the same input.
Synchronize(field, value) ==
    LET out == synchronizeFilters(field, value, filters, extractedData)
    IN  /\ call' = [op |-> "synchronizeFilters", field |-> field, value |-> value,
                    cur |-> filters, out |-> out,
                    validated |-> validateFilters(filters, extractedData)]
        /\ filters' = out
        /\ UNCHANGED <<uiVars, loader, rawFeatures, extractedData, searchTerms, prevDeps,
                       pendingRender, layerFilter, zoomFeatures, appVars>>

NextSync == \E field \in Fields : \E value \in FacetValues[field] :
                Synchronize(field, value)

SpecSync == InitSync /\ [][NextSync]_vars

---------------------------------------------------------------------------
(* Spec: the Sidebar component inside App.  A handler queues state         *)
(* updates; the next render runs the effects whose dependencies changed,   *)
(* in source order, and React runs them before it handles another event    *)
(* or timer.  App builds a new handleFilterChange at each of its renders,  *)
(* so the Sidebar's onFilterChange prop changes whenever App renders.      *)

Init ==
    /\ rawFeatures = <<>>
    /\ extractedData = NoData
    /\ filters = EmptyFilters
    /\ searchTerms = EmptyFilters
    /\ prevDeps = InitialDeps
    /\ pendingRender = FALSE
    /\ call = NoCall
    /\ layerFilter = <<>>
    /\ zoomFeatures = {}
    /\ appFilters = EmptyFilters
    /\ debounce = <<EmptyFilters>>
    /\ forced = EmptyBag
    /\ loader = NoLoader
    /\ measure = NoMeasure
    /\ style = InitialStyle
    /\ viewer = NoViewer

\* setTimeout(() => onFilterChange(payload), delay)
Timer(delay, payload) == [delay |-> delay, payload |-> payload]

\* The bag of timers after one more is set.
Schedule(timers, delay, payload) ==
    timers (+) SetToBag({Timer(delay, payload)})

HasRoom == BagCardinality(forced) < MaxTimers

\* extractLayerData publishes a non-empty index: App.handleDataLoaded.
DataLoaded(allFeatures) ==
    LET data == BuildIndex(allFeatures)
    IN  /\ ~pendingRender
        /\ HasRoom
        /\ data.entidades # {}
        /\ extractedData' = <<data>>
        /\ prevDeps' = [prevDeps EXCEPT !.sameData = FALSE,
                                        !.sameCallback = FALSE]
        /\ pendingRender' = TRUE
        /\ UNCHANGED <<uiVars, loader, rawFeatures, filters, searchTerms, call, layerFilter,
                       zoomFeatures, appVars>>

\* A click on an option of a dropdown ('' is the "all" entry).
HandleFilterChange(field, value) ==
    LET syncedFilters == synchronizeFilters(field, value, filters, extractedData)
        immediate ==
            /\ field = "pueblo" /\ Truthy(value)
            /\ Truthy(syncedFilters.entidad) /\ Truthy(syncedFilters.municipio)
            /\ Truthy(syncedFilters.comunidad)
    IN  /\ ~pendingRender
        /\ ~Disabled(field, filters, extractedData)
        /\ value \in {""} \cup FilteredOptions(field, filters, searchTerms,
                                               extractedData)
        /\ immediate => HasRoom
        /\ filters' = syncedFilters
        /\ searchTerms' = [searchTerms EXCEPT ![field] = ""]
        /\ prevDeps' = [prevDeps EXCEPT
                            !.sameFilters = ~HasData(extractedData) /\ @]
        /\ forced' = IF immediate THEN Schedule(forced, 100, syncedFilters)
                     ELSE forced
        /\ pendingRender' = TRUE
        /\ UNCHANGED <<uiVars, loader, rawFeatures, extractedData, call, layerFilter,
                       zoomFeatures, appFilters, debounce>>

\* The text of a facet input changed to `value`.
HandleSearchChange(field, value) ==
    /\ ~pendingRender
    /\ ~Disabled(field, filters, extractedData)
    /\ value # Or(filters[field], searchTerms[field])
    /\ searchTerms' = [searchTerms EXCEPT ![field] = value]
    /\ filters' = [filters EXCEPT ![field] = value]
    /\ prevDeps' = [prevDeps EXCEPT !.sameFilters = FALSE]
    /\ pendingRender' = TRUE
    /\ UNCHANGED <<uiVars, loader, rawFeatures, extractedData, call, layerFilter,
                   zoomFeatures, appVars>>

\* The "Limpiar filtros" button, shown with data and some filter set.
ClearAllFilters ==
    /\ ~pendingRender
    /\ HasRoom
    /\ HasData(extractedData)
    /\ \E field \in Fields : Truthy(filters[field])
    /\ filters' = EmptyFilters
    /\ searchTerms' = EmptyFilters
    /\ prevDeps' = [prevDeps EXCEPT !.sameFilters = FALSE]
    /\ forced' = Schedule(forced, 100, EmptyFilters)
    /\ pendingRender' = TRUE
    /\ UNCHANGED <<uiVars, loader, rawFeatures, extractedData, call, layerFilter,
                   zoomFeatures, appFilters, debounce>>

\* The filters the validation effect puts in the update queue.
AfterValidation(f, data, deps) ==
    IF ~deps.sameData /\ HasData(data) THEN validateFilters(f, data) ELSE f

\* sortedMunicipios is recomputed (extractedData, entidad or pueblo changed).
MunicipiosChanged(f, deps) ==
    ~deps.sameData \/ f.entidad # deps.entidad \/ f.pueblo # deps.pueblo

\* sortedComunidades is recomputed.
ComunidadesChanged(f, deps) ==
    MunicipiosChanged(f, deps) \/ f.municipio # deps.municipio

\* First dependent-filter effect: it drops a municipality that left the list.
CleanMunicipio(f, data, deps) ==
    /\ MunicipiosChanged(f, deps)
    /\ Truthy(f.entidad)
    /\ Truthy(f.municipio)
    /\ f.municipio \notin sortedMunicipios(f, data)

\* Second dependent-filter effect: it drops a community that left the list.
CleanComunidad(f, data, deps) ==
    /\ ComunidadesChanged(f, deps)
    /\ Truthy(f.municipio)
    /\ Truthy(f.comunidad)
    /\ f.comunidad \notin sortedComunidades(f, data)

\* The state `filters` after the effects of one render: setFilters(validated)
\* and then the two functional updates, applied in order to the queue.
AfterEffects(f, data, deps) ==
    LET s1 == AfterValidation(f, data, deps)
        s2 == IF CleanMunicipio(f, data, deps)
              THEN [s1 EXCEPT !.municipio = "", !.comunidad = ""]
              ELSE s1
        s3 == IF CleanComunidad(f, data, deps)
              THEN [s2 EXCEPT !.comunidad = ""]
              ELSE s2
    IN  s3

\* The propagation effect runs again: its dependencies are [filters,
\* onFilterChange].
PropagationReruns_FiltersOnly(deps) == ~deps.sameFilters

PropagationReruns(deps) == ~deps.sameFilters \/ ~deps.sameCallback

\* One render of the Sidebar with its effects.
Render ==
    LET validated == AfterValidation(filters, extractedData, prevDeps)
        again ==
            \/ validated # filters
            \/ CleanMunicipio(filters, extractedData, prevDeps)
            \/ CleanComunidad(filters, extractedData, prevDeps)
    IN  /\ pendingRender
        /\ filters' = AfterEffects(filters, extractedData, prevDeps)
        /\ forced' = IF validated # filters
                     THEN Schedule(forced, 150, validated)
                     ELSE forced
        /\ debounce' = IF PropagationReruns(prevDeps) THEN <<filters>>
                       ELSE debounce
        /\ prevDeps' = [entidad |-> filters.entidad,
                        municipio |-> filters.municipio,
                        comunidad |-> filters.comunidad,
                        pueblo |-> filters.pueblo,
                        sameData |-> TRUE, sameFilters |-> ~again,
                        sameCallback |-> TRUE]
        /\ pendingRender' = again
        /\ UNCHANGED <<uiVars, loader, rawFeatures, extractedData, searchTerms, call,
                       layerFilter, zoomFeatures, appFilters>>

\* App.handleFilterChange(newFilters), the Sidebar's onFilterChange: App
\* renders again when its state changed.
Publish(newFilters) ==
    /\ appFilters' = newFilters
    /\ IF newFilters # appFilters
       THEN /\ pendingRender' = TRUE
            /\ prevDeps' = [prevDeps EXCEPT !.sameCallback = FALSE]
       ELSE UNCHANGED <<uiVars, loader, pendingRender, prevDeps>>

\* The 50 ms propagation timer fires.
FireDebounce ==
    /\ ~pendingRender
    /\ debounce # <<>>
    /\ Publish(debounce[1])
    /\ debounce' = <<>>
    /\ UNCHANGED <<uiVars, loader, rawFeatures, extractedData, filters, searchTerms, call,
                   layerFilter, zoomFeatures, forced>>

\* A 100 ms or 150 ms timer fires.
FireForced(t) ==
    /\ ~pendingRender
    /\ BagIn(t, forced)
    /\ Publish(t.payload)
    /\ forced' = forced (-) SetToBag({t})
    /\ UNCHANGED <<uiVars, loader, rawFeatures, extractedData, filters, searchTerms, call,
                   layerFilter, zoomFeatures, debounce>>

\* props[KEY] ?? "-": the text the click handler shows for a missing property.
Dash == "-"
Nullish(v, d) == IF v = Undefined THEN d ELSE v

\* The patch the Map's click handler sends for the clicked feature.
ClickPatch(props) ==
    [entidad   |-> Nullish(props[ENT_KEY], Dash),
     municipio |-> Nullish(props[MUN_KEY], Dash),
     localidad |-> Nullish(props[LOC_KEY], Dash),
     pueblo    |-> Nullish(props[PUE_KEY], Dash)]

\* App.handleFilterChangeFromMap(patch) applied to App's filters.
handleFilterChangeFromMap(patch, prev, data) ==
    IF HasData(data) /\ Truthy(patch.entidad)
       /\ patch.entidad \in data[1].entidades
    THEN [entidad |-> patch.entidad, municipio |-> Or(patch.municipio, ""),
          comunidad |-> Or(patch.localidad, ""), pueblo |-> Or(patch.pueblo, "")]
    ELSE prev

\* A click on a point of the layer; App renders again (onCommunityClick).
MapClick(props) ==
    /\ ~pendingRender
    /\ appFilters' = handleFilterChangeFromMap(ClickPatch(props), appFilters,
                                               extractedData)
    /\ prevDeps' = [prevDeps EXCEPT !.sameCallback = FALSE]
    /\ pendingRender' = TRUE
    /\ UNCHANGED <<uiVars, loader, rawFeatures, extractedData, filters, searchTerms, call,
                   layerFilter, zoomFeatures, debounce, forced>>

Next ==
    \/ \E l \in FeatureLists(LoadPool, MaxFeatures) : DataLoaded(l)
    \/ \E field \in Fields :
          \E value \in UNION {FacetValues[g] : g \in Fields} :
              HandleFilterChange(field, value)
    \/ \E field \in Fields : \E value \in TypedTexts :
          HandleSearchChange(field, value)
    \/ ClearAllFilters
    \/ Render
    \/ FireDebounce
    \/ \E t \in BagToSet(forced) : FireForced(t)
    \/ \E props \in LoadedFeaturesOf(extractedData) : MapClick(props)

Spec == Init /\ [][Next]_vars

---------------------------------------------------------------------------
(* SpecFilter: the Map component's filter effect.  `filters` is the        *)
(* selection the Map receives from App; the effect runs applyMapFilters    *)
(* and then applyFilterZoom each time it changes.                          *)

\* filters.x && filters.x.trim() !== ''
NonBlank(v) == Truthy(v) /\ Trim(v) # ""

\* The expression applyMapFilters hands to map.setFilter; <<>> is null.
applyMapFilters(f) ==
    LET allFiltersEmpty ==
            /\ ~Truthy(Trim(f.entidad)) /\ ~Truthy(Trim(f.municipio))
            /\ ~Truthy(Trim(f.comunidad)) /\ ~Truthy(Trim(f.pueblo))
        entidad   == IF NonBlank(f.entidad)
                     THEN << <<"==", <<"get", ENT_KEY>>, f.entidad>> >>
                     ELSE <<>>
        municipio == IF NonBlank(f.municipio)
                     THEN << <<"==", <<"get", MUN_KEY>>, f.municipio>> >>
                     ELSE <<>>
        comunidad == IF NonBlank(f.comunidad)
                     THEN << <<"any",
                               <<"==", <<"get", COM_KEY>>, f.comunidad>>,
                               <<"==", <<"get", LOC_KEY>>, f.comunidad>> >> >>
                     ELSE <<>>
        pueblo    == IF NonBlank(f.pueblo)
                     THEN << <<"==", <<"get", PUE_KEY>>, f.pueblo>> >>
                     ELSE <<>>
        conditions == entidad \o municipio \o comunidad \o pueblo
    IN  IF allFiltersEmpty \/ Len(conditions) = 0 THEN <<>>
        ELSE IF Len(conditions) = 1 THEN conditions[1]
        ELSE <<"all">> \o conditions

\* The layer draws a feature when the expression set by map.setFilter
\* evaluates to true on its properties; a missing property equals no string.
RECURSIVE LayerShows(_, _)
LayerShows(expr, props) ==
    IF Len(expr) = 0 THEN TRUE
    ELSE IF expr[1] = "==" THEN props[expr[2][2]] = expr[3]
    ELSE IF expr[1] = "any"
         THEN \E i \in 2..Len(expr) : LayerShows(expr[i], props)
    ELSE \A i \in 2..Len(expr) : LayerShows(expr[i], props)

\* The callback of extractedDataRef.current.features.filter in applyFilterZoom.
ZoomAccepts(props, f) ==
    /\ Truthy(f.entidad) => props[ENT_KEY] = f.entidad
    /\ Truthy(f.municipio) => props[MUN_KEY] = f.municipio
    /\ Truthy(f.comunidad) => Or(props[COM_KEY], props[LOC_KEY]) = f.comunidad
    /\ Truthy(f.pueblo) => props[PUE_KEY] = f.pueblo

\* The features applyFilterZoom fits the viewport to.
applyFilterZoom(f, data) == {p \in Features(data) : ZoomAccepts(p, f)}

\* Options that look at the state before the municipality and the
\* community: the fault C20 is stated against.
fitBoundsOptions_StateFirst(f) ==
    IF Truthy(f.entidad)
    THEN [maxZoom |-> 9,
          padding |-> [top |-> 60, bottom |-> 60, left |-> 60, right |-> 360]]
    ELSE IF Truthy(f.municipio)
    THEN [maxZoom |-> 12,
          padding |-> [top |-> 80, bottom |-> 80, left |-> 80, right |-> 380]]
    ELSE IF Truthy(f.comunidad)
    THEN [maxZoom |-> 16,
          padding |-> [top |-> 100, bottom |-> 100, left |-> 100, right |-> 400]]
    ELSE [maxZoom |-> 16,
          padding |-> [top |-> 50, bottom |-> 50, left |-> 50, right |-> 350]]

\* Options with a tier of their own for a selected people: the fault C21 is
\* stated against.
fitBoundsOptions_PeopleAware(f) ==
    IF Truthy(f.comunidad)
    THEN [maxZoom |-> 16,
          padding |-> [top |-> 100, bottom |-> 100, left |-> 100, right |-> 400]]
    ELSE IF Truthy(f.municipio) \/ Truthy(f.pueblo)
    THEN [maxZoom |-> 12,
          padding |-> [top |-> 80, bottom |-> 80, left |-> 80, right |-> 380]]
    ELSE IF Truthy(f.entidad)
    THEN [maxZoom |-> 9,
          padding |-> [top |-> 60, bottom |-> 60, left |-> 60, right |-> 360]]
    ELSE [maxZoom |-> 16,
          padding |-> [top |-> 50, bottom |-> 50, left |-> 50, right |-> 350]]

\* The padding and maxZoom applyFilterZoom passes to map.fitBounds.
fitBoundsOptions(f) ==
    IF Truthy(f.comunidad)
    THEN [maxZoom |-> 16,
          padding |-> [top |-> 100, bottom |-> 100, left |-> 100, right |-> 400]]
    ELSE IF Truthy(f.municipio)
    THEN [maxZoom |-> 12,
          padding |-> [top |-> 80, bottom |-> 80, left |-> 80, right |-> 380]]
    ELSE IF Truthy(f.entidad)
    THEN [maxZoom |-> 9,
          padding |-> [top |-> 60, bottom |-> 60, left |-> 60, right |-> 360]]
    ELSE [maxZoom |-> 16,
          padding |-> [top |-> 50, bottom |-> 50, left |-> 50, right |-> 350]]

\* The calls of map.fitBounds one run of applyFilterZoom makes: none without
\* an index or without a matching feature.
fitBounds(f, data) ==
    IF HasData(data) /\ applyFilterZoom(f, data) # {}
    THEN <<fitBoundsOptions(f)>>
    ELSE <<>>

\* Features of one municipality whose community is named in NOM_COM, in
\* NOM_LOC, or in both with different names.
FilterPool ==
    {[id |-> Undefined, ID |-> Undefined, NOM_ENT |-> e, NOM_MUN |-> "M1",
      NOM_COM |-> c[1], NOM_LOC |-> c[2], Pueblo |-> p] :
        e \in {"E1", "E2"},
        c \in {<<"C1", Undefined>>, <<Undefined, "C2">>, <<"C1", "C2">>,
               <<"C2", "C1">>},
        p \in {"P1", "P2"}}

\* Selections the Map receives, a blank text among them.
FilterSelections ==
    [entidad : {"", " ", "E1"}, municipio : {"", "M1"},
     comunidad : {"", "C1", "C2"}, pueblo : {"", "P1"}]

InitFilter ==
    /\ \E l \in FeatureLists(FilterPool, MaxFeatures) :
          /\ rawFeatures = l
          /\ extractedData = <<BuildIndex(l)>>
    /\ filters = EmptyFilters
    /\ searchTerms = EmptyFilters
    /\ prevDeps = InitialDeps
    /\ pendingRender = FALSE
    /\ call = NoCall
    /\ layerFilter = <<>>
    /\ zoomFeatures = {}
    /\ appFilters = EmptyFilters
    /\ debounce = <<>>
    /\ forced = EmptyBag
    /\ loader = NoLoader
    /\ measure = NoMeasure
    /\ style = InitialStyle
    /\ viewer = NoViewer

\* The effect on [filters, applyMapFilters, applyFilterZoom].
FiltersChanged(f) ==
    /\ f # filters
    /\ filters' = f
    /\ layerFilter' = applyMapFilters(f)
    /\ zoomFeatures' = IF HasData(extractedData)
                       THEN applyFilterZoom(f, extractedData)
                       ELSE zoomFeatures
    /\ call' = [op |-> "applyFilters", field |-> "", value |-> "",
                cur |-> EmptyFilters, out |-> EmptyFilters,
                fit |-> fitBounds(f, extractedData)]
    /\ UNCHANGED <<uiVars, loader, rawFeatures, extractedData, searchTerms, prevDeps,
                   pendingRender, appVars>>

NextFilter == \E f \in FilterSelections : FiltersChanged(f)

SpecFilter == InitFilter /\ [][NextFilter]_vars

---------------------------------------------------------------------------
(* SpecIndex: extractLayerData as a function of what the source returns.   *)
(* Here extractedData is extractedDataRef.current, set at every run.       *)

\* A feature whose `properties` is missing: every key reads undefined.
MissingProperties ==
    [id |-> Undefined, ID |-> Undefined, NOM_ENT |-> Undefined,
     NOM_MUN |-> Undefined, NOM_COM |-> Undefined, NOM_LOC |-> Undefined,
     Pueblo |-> Undefined]

\* A feature whose four facet fields are empty or blank text.
BlankFacets ==
    [id |-> Undefined, ID |-> Undefined, NOM_ENT |-> " ", NOM_MUN |-> "",
     NOM_COM |-> "", NOM_LOC |-> " ", Pueblo |-> " "]

\* Those two and the records of the source: with no id, with the property ID, with the
\* feature id; a state that is plain, padded or missing; a municipality
\* that is plain or blank; a people that is present (community in NOM_COM)
\* or missing (community in NOM_LOC).
IndexPool ==
    {[id |-> i[2], ID |-> i[1], NOM_ENT |-> e, NOM_MUN |-> m,
      NOM_COM |-> IF p = "P1" THEN "C1" ELSE Undefined,
      NOM_LOC |-> IF p = "P1" THEN Undefined ELSE "C2", Pueblo |-> p] :
        i \in {<<Undefined, Undefined>>, <<"1", Undefined>>, <<Undefined, "1">>},
        e \in {"E1", " E2", Undefined},
        m \in {"M1", " "},
        p \in {"P1", Undefined}}
    \cup {MissingProperties, BlankFacets}

\* What querySourceFeatures may return: ordered, with repetitions.
SourceLists(pool, n) == UNION {[1..k -> pool] : k \in 1..n}

\* The re-orderings of a list.
Reorderings(s) ==
    {[i \in 1..Len(s) |-> s[perm[i]]] : perm \in Permutations(1..Len(s))}

InitIndex ==
    /\ rawFeatures \in SourceLists(IndexPool, MaxFeatures)
    /\ extractedData = NoData
    /\ filters = EmptyFilters
    /\ searchTerms = EmptyFilters
    /\ prevDeps = InitialDeps
    /\ pendingRender = FALSE
    /\ call = NoCall
    /\ layerFilter = <<>>
    /\ zoomFeatures = {}
    /\ appFilters = EmptyFilters
    /\ debounce = <<>>
    /\ forced = EmptyBag
    /\ loader = NoLoader
    /\ measure = NoMeasure
    /\ style = InitialStyle
    /\ viewer = NoViewer

\* One run of extractLayerData on the list `source`; `how` tells what the
\* source returned relative to the run before.
ExtractLayerData(source, how) ==
    /\ rawFeatures' = source
    /\ extractedData' = <<BuildIndex(source)>>
    /\ call' = [op |-> "extractLayerData", how |-> how, prev |-> extractedData,
                prevRaw |-> rawFeatures]
    /\ UNCHANGED <<uiVars, loader, filters, searchTerms, prevDeps, pendingRender, layerFilter,
                   zoomFeatures, appVars>>

NextIndex ==
    \/ ExtractLayerData(rawFeatures, "same")
    \/ /\ HasData(extractedData)
       /\ \E source \in Reorderings(rawFeatures) \ {rawFeatures} :
              ExtractLayerData(source, "reordered")
    \/ /\ HasData(extractedData)
       /\ ExtractLayerData(extractedData[1].features, "deduplicated")

SpecIndex == InitIndex /\ [][NextIndex]_vars

---------------------------------------------------------------------------
(* SpecPick: a user who only picks entries the dropdowns offer, starting   *)
(* from the empty selection on a loaded index.                             *)

\* Features with a plain or a padded state name, in two municipalities.
PickPool ==
    {[id |-> Undefined, ID |-> Undefined, NOM_ENT |-> e, NOM_MUN |-> m,
      NOM_COM |-> IF p = "P1" THEN "C1" ELSE Undefined,
      NOM_LOC |-> IF p = "P1" THEN Undefined ELSE "C2", Pueblo |-> p] :
        e \in {"E1", " E2"}, m \in {"M1", "M2"}, p \in {"P1", "P2"}}

InitPick ==
    /\ \E l \in FeatureLists(PickPool, MaxFeatures) :
          /\ rawFeatures = l
          /\ extractedData = <<BuildIndex(l)>>
    /\ filters = EmptyFilters
    /\ searchTerms = EmptyFilters
    /\ prevDeps = InitialDeps
    /\ pendingRender = FALSE
    /\ call = NoCall
    /\ layerFilter = <<>>
    /\ zoomFeatures = {}
    /\ appFilters = EmptyFilters
    /\ debounce = <<>>
    /\ forced = EmptyBag
    /\ loader = NoLoader
    /\ measure = NoMeasure
    /\ style = InitialStyle
    /\ viewer = NoViewer

\* The entries the dropdown of a facet lists, the "all" entry first.
Offered(field, f, data) ==
    IF Disabled(field, f, data) THEN {}
    ELSE {""} \cup SortedOptions(field, f, data)

\* A click on an entry: handleFilterChange reconciles it, and the four
\* option lists and the count are computed for the new selection.
Pick(field, value) ==
    LET out == synchronizeFilters(field, value, filters, extractedData)
    IN  /\ value \in Offered(field, filters, extractedData)
        /\ filters' = out
        /\ call' = [op |-> "pick", field |-> field, value |-> value,
                    cur |-> filters, out |-> out,
                    count |-> getFilteredCount(out, extractedData),
                    options |-> [g \in Fields |->
                                    SortedOptions(g, out, extractedData)]]
        /\ UNCHANGED <<uiVars, loader, rawFeatures, extractedData, searchTerms, prevDeps,
                       pendingRender, layerFilter, zoomFeatures, appVars>>

NextPick ==
    \E field \in Fields :
        \E value \in Offered(field, filters, extractedData) : Pick(field, value)

SpecPick == InitPick /\ [][NextPick]_vars

---------------------------------------------------------------------------
(* SpecScenario: the reconciler and the count on the three features of the *)
(* worked example, edits applied one after another from the empty          *)
(* selection.                                                              *)

ScenarioFeature(e, m, c, p) ==
    [id |-> Undefined, ID |-> Undefined, NOM_ENT |-> e, NOM_MUN |-> m,
     NOM_COM |-> c, NOM_LOC |-> Undefined, Pueblo |-> p]

\* F1, F2, F3 (the municipality name written without its accent).
ScenarioFeatures ==
    <<ScenarioFeature("Oaxaca", "Juchitan", "X", "Zapoteco"),
      ScenarioFeature("Oaxaca", "Juchitan", "Y", "Zapoteco"),
      ScenarioFeature("Chiapas", "Z", "W", "Tzotzil")>>

\* The values an edit sets: those of the three features, or nothing.
ScenarioValues ==
    [entidad   |-> {"", "Oaxaca", "Chiapas"},
     municipio |-> {"", "Juchitan", "Z"},
     comunidad |-> {"", "X", "Y", "W"},
     pueblo    |-> {"", "Zapoteco", "Tzotzil"}]

InitScenario ==
    /\ rawFeatures \in Reorderings(ScenarioFeatures)
    /\ extractedData = <<BuildIndex(rawFeatures)>>
    /\ filters = EmptyFilters
    /\ searchTerms = EmptyFilters
    /\ prevDeps = InitialDeps
    /\ pendingRender = FALSE
    /\ call = NoCall
    /\ layerFilter = <<>>
    /\ zoomFeatures = {}
    /\ appFilters = EmptyFilters
    /\ debounce = <<>>
    /\ forced = EmptyBag
    /\ loader = NoLoader
    /\ measure = NoMeasure
    /\ style = InitialStyle
    /\ viewer = NoViewer

\* One edit reconciled and the count computed for its result.
Edit(field, value) ==
    LET out == synchronizeFilters(field, value, filters, extractedData)
    IN  /\ filters' = out
        /\ call' = [op |-> "edit", field |-> field, value |-> value,
                    cur |-> filters, out |-> out,
                    count |-> getFilteredCount(out, extractedData)]
        /\ UNCHANGED <<uiVars, loader, rawFeatures, extractedData, searchTerms, prevDeps,
                       pendingRender, layerFilter, zoomFeatures, appVars>>

NextScenario ==
    \E field \in Fields : \E value \in ScenarioValues[field] : Edit(field, value)

SpecScenario == InitScenario /\ [][NextScenario]_vars

---------------------------------------------------------------------------
(* SpecLoad: the Map from its load event on, with no style change and no   *)
(* resize.  extractedData is extractedDataRef.current, rawFeatures is what *)
(* map.querySourceFeatures returns at the moment, and loader holds         *)
(* extractAttempts, the pending timers, whether the once('idle') listener  *)
(* is still armed, whether the INPI layer exists, and the numbers of       *)
(* extractLayerData runs and of onDataLoaded calls.  Timers fire in any    *)
(* order, and the idle event comes at any time.                            *)

\* Longest chain of extractLayerData runs followed.
MaxRuns == 11

\* The state the 'load' handler leaves: addVectorLayers has added the layer,
\* tryExtractData is due in 2 s, the idle listener is armed, and the source
\* has no tile yet.
InitLoad ==
    /\ rawFeatures = <<>>
    /\ extractedData = NoData
    /\ filters = EmptyFilters
    /\ searchTerms = EmptyFilters
    /\ prevDeps = InitialDeps
    /\ pendingRender = FALSE
    /\ call = NoCall
    /\ layerFilter = <<>>
    /\ zoomFeatures = {}
    /\ appFilters = EmptyFilters
    /\ debounce = <<>>
    /\ forced = EmptyBag
    /\ loader = [NoLoader EXCEPT !.tryExtractData = TRUE, !.idleArmed = TRUE,
                                 !.layer = TRUE]
    /\ measure = NoMeasure
    /\ style = InitialStyle
    /\ viewer = NoViewer

\* The tiles of the INPI source arrive.
SourceLoaded ==
    /\ rawFeatures = <<>>
    /\ rawFeatures' \in FeatureLists(LoadPool, MaxFeatures)
    /\ UNCHANGED <<uiVars, loader, extractedData, filters, searchTerms, prevDeps,
                   pendingRender, call, layerFilter, zoomFeatures, appVars>>

\* A run that gives up on an empty index instead of scheduling the next
\* run: the fault C34 is stated against.
RunExtractLayerData_NoRetryWhenEmpty(l) ==
    LET ran   == [l EXCEPT !.runs = @ + 1]
        retry == [ran EXCEPT !.extractTimers = @ + 1]
        data  == BuildIndex(rawFeatures)
    IN  /\ l.runs < MaxRuns
        /\ \/ /\ ~l.layer
              /\ loader' = retry
              /\ UNCHANGED extractedData
           \/ /\ l.layer
              /\ loader' = retry
              /\ UNCHANGED extractedData
           \/ /\ l.layer
              /\ extractedData' = <<data>>
              /\ loader' = IF data.entidades # {}
                           THEN [ran EXCEPT !.published = @ + 1]
                           ELSE ran

\* One run of extractLayerData(map), the loader being l when it starts:
\* a missing layer, a thrown error and an empty index each schedule the
\* next run; a non-empty index is published.
RunExtractLayerData(l) ==
    LET ran   == [l EXCEPT !.runs = @ + 1]
        retry == [ran EXCEPT !.extractTimers = @ + 1]
        data  == BuildIndex(rawFeatures)
    IN  /\ l.runs < MaxRuns
        /\ \/ /\ ~l.layer
              /\ loader' = retry
              /\ UNCHANGED extractedData
           \/ /\ l.layer
              /\ loader' = retry
              /\ UNCHANGED extractedData
           \/ /\ l.layer
              /\ extractedData' = <<data>>
              /\ loader' = IF data.entidades # {}
                           THEN [ran EXCEPT !.published = @ + 1]
                           ELSE retry

\* setTimeout(tryExtractData, 2000) fires.
TryExtractData ==
    /\ loader.tryExtractData
    /\ loader' = [loader EXCEPT
                    !.tryExtractData = FALSE,
                    !.extractAttempts = @ + 1,
                    !.extractTimers = IF loader.extractAttempts + 1 <= 10
                                      THEN @ + 1 ELSE @]
    /\ UNCHANGED <<uiVars, rawFeatures, extractedData, filters, searchTerms, prevDeps,
                   pendingRender, call, layerFilter, zoomFeatures, appVars>>

\* A setTimeout(() => extractLayerData(map), ...) fires.
ExtractTimer ==
    /\ loader.extractTimers > 0
    /\ RunExtractLayerData([loader EXCEPT !.extractTimers = @ - 1])
    /\ UNCHANGED <<uiVars, rawFeatures, filters, searchTerms, prevDeps,
                   pendingRender, call, layerFilter, zoomFeatures, appVars>>

\* The map's idle event: the once('idle') listener schedules its check.
Idle ==
    /\ loader.idleArmed
    /\ loader' = [loader EXCEPT !.idleArmed = FALSE, !.idleTimer = TRUE]
    /\ UNCHANGED <<uiVars, rawFeatures, extractedData, filters, searchTerms, prevDeps,
                   pendingRender, call, layerFilter, zoomFeatures, appVars>>

\* The check scheduled by the idle listener fires.
IdleTimer ==
    /\ loader.idleTimer
    /\ IF ~HasData(extractedData)
       THEN RunExtractLayerData([loader EXCEPT !.idleTimer = FALSE])
       ELSE /\ loader' = [loader EXCEPT !.idleTimer = FALSE]
            /\ UNCHANGED extractedData
    /\ UNCHANGED <<uiVars, rawFeatures, filters, searchTerms, prevDeps,
                   pendingRender, call, layerFilter, zoomFeatures, appVars>>

NextLoad ==
    \/ SourceLoaded
    \/ TryExtractData
    \/ ExtractTimer
    \/ Idle
    \/ IdleTimer

SpecLoad == InitLoad /\ [][NextLoad]_vars

\* The same with the timers firing: a pending setTimeout callback runs.
SpecLoadFair ==
    /\ SpecLoad
    /\ WF_vars(TryExtractData)
    /\ WF_vars(ExtractTimer)
    /\ WF_vars(IdleTimer)

---------------------------------------------------------------------------
(* SpecCount: getFilteredCount as a function of the selection, recomputed  *)
(* when one facet of the selection is set.                                 *)

\* Selections of any shape: blank and padded texts, values of no feature,
\* facets set without their parent.
CountSelections ==
    [entidad : {"", " ", "E1", " E2", "E2"}, municipio : {"", "M1", "M2"},
     comunidad : {"", "C1", "C2"}, pueblo : {"", "P1", "P2"}]

InitCount ==
    /\ \E l \in FeatureLists(PickPool, MaxFeatures) :
          /\ rawFeatures = l
          /\ extractedData = <<BuildIndex(l)>>
    /\ filters \in CountSelections
    /\ searchTerms = EmptyFilters
    /\ prevDeps = InitialDeps
    /\ pendingRender = FALSE
    /\ call = NoCall
    /\ layerFilter = <<>>
    /\ zoomFeatures = {}
    /\ appFilters = EmptyFilters
    /\ debounce = <<>>
    /\ forced = EmptyBag
    /\ loader = NoLoader
    /\ measure = NoMeasure
    /\ style = InitialStyle
    /\ viewer = NoViewer

\* One empty facet of the selection receives a value and the memoised count
\* is recomputed for the new selection.
Narrow(field, value) ==
    /\ filters[field] = ""
    /\ value # ""
    /\ filters' = [filters EXCEPT ![field] = value]
    /\ call' = [op |-> "getFilteredCount", field |-> field, value |-> value,
                before |-> getFilteredCount(filters, extractedData),
                after |-> getFilteredCount(filters', extractedData)]
    /\ UNCHANGED <<uiVars, loader, rawFeatures, extractedData, searchTerms, prevDeps,
                   pendingRender, layerFilter, zoomFeatures, appVars>>

NextCount ==
    \E field \in Fields :
        \E value \in {f[field] : f \in CountSelections} : Narrow(field, value)

SpecCount == InitCount /\ [][NextCount]_vars

---------------------------------------------------------------------------
(* SpecMap: the Map's measurement tools and base style.  Points, routes    *)
(* and lines are counted, not drawn: the handlers branch on the lengths    *)
(* only.  A handler and the effects of the render it causes are one step.  *)

\* Everything the measurement tools and the style switches leave alone.
dataVars == <<rawFeatures, extractedData, filters, searchTerms, prevDeps,
              pendingRender, call, layerFilter, zoomFeatures, appFilters,
              debounce, forced, loader>>

\* Routes and lines drawn or requested at once.
MaxRoutes == 3

InitMap ==
    /\ rawFeatures = <<>>
    /\ extractedData = NoData
    /\ filters = EmptyFilters
    /\ searchTerms = EmptyFilters
    /\ prevDeps = InitialDeps
    /\ pendingRender = FALSE
    /\ call = NoCall
    /\ layerFilter = <<>>
    /\ zoomFeatures = {}
    /\ appFilters = EmptyFilters
    /\ debounce = <<>>
    /\ forced = EmptyBag
    /\ loader = NoLoader
    /\ measure = NoMeasure
    /\ style = InitialStyle
    /\ viewer = NoViewer

\* clearAllRoutes(): no stored route, no stored line.
clearAllRoutes(m) == [m EXCEPT !.routesData = 0, !.linesData = 0]

\* toggleMeasurement, without its setIsMeasuringLine(false).
toggleMeasurement_KeepsLineMode(m) ==
    LET was == m.isMeasuring
        cleared == IF was THEN clearAllRoutes(m) ELSE m
    IN  [cleared EXCEPT !.isMeasuring = ~was,
                        !.currentPoints = 0, !.currentLinePoints = 0]

\* toggleMeasurement: flip the route mode, leave the line mode, clear the
\* stored routes and lines when the mode was on, drop the current points.
toggleMeasurement(m) ==
    LET was == m.isMeasuring
        cleared == IF was THEN clearAllRoutes(m) ELSE m
    IN  [cleared EXCEPT !.isMeasuring = ~was, !.isMeasuringLine = FALSE,
                        !.currentPoints = 0, !.currentLinePoints = 0]

\* toggleLineMeasurement: the same for the straight-line mode.
toggleLineMeasurement(m) ==
    LET was == m.isMeasuringLine
        cleared == IF was THEN clearAllRoutes(m) ELSE m
    IN  [cleared EXCEPT !.isMeasuringLine = ~was, !.isMeasuring = FALSE,
                        !.currentPoints = 0, !.currentLinePoints = 0]

\* handleMapClick: a click adds a point to the active mode's pair unless
\* the pair is complete.
handleMapClick(m) ==
    IF m.isMeasuring
    THEN IF m.currentPoints >= 2 THEN m
         ELSE [m EXCEPT !.currentPoints = @ + 1]
    ELSE IF m.isMeasuringLine
         THEN IF m.currentLinePoints >= 2 THEN m
              ELSE [m EXCEPT !.currentLinePoints = @ + 1]
         ELSE m

\* addLineToMap: the line is stored at once and the pair is dropped.
addLineToMap(m) ==
    [m EXCEPT !.linesData = @ + 1, !.currentLinePoints = 0]

\* The two effects on the current points: a complete pair of route points
\* starts the request of addRouteToMap, which returns at its await; a
\* complete pair of line points is stored by addLineToMap.
PointsEffects(old, m) ==
    LET routed == IF m.currentPoints # old.currentPoints
                     /\ m.currentPoints = 2
                  THEN [m EXCEPT !.requests = @ + 1]
                  ELSE m
    IN  IF m.currentLinePoints # old.currentLinePoints
           /\ m.currentLinePoints = 2
        THEN addLineToMap(routed)
        ELSE routed

\* The route button.
ToggleMeasurement ==
    /\ measure' = PointsEffects(measure, toggleMeasurement(measure))
    /\ UNCHANGED <<dataVars, style, viewer>>

\* The straight-line button.
ToggleLineMeasurement ==
    /\ measure' = PointsEffects(measure, toggleLineMeasurement(measure))
    /\ UNCHANGED <<dataVars, style, viewer>>

\* A click on the map while a mode is on (the listener is registered only
\* then); the render that follows runs the effects on the points.
MeasureClick ==
    /\ measure.isMeasuring \/ measure.isMeasuringLine
    /\ handleMapClick(measure) # measure
    /\ measure.routesData + measure.linesData + measure.requests < MaxRoutes
    /\ measure' = PointsEffects(measure, handleMapClick(measure))
    /\ UNCHANGED <<dataVars, style, viewer>>

\* The routing service answers a request of addRouteToMap: on success the
\* route is appended to routesData, on failure an alert is shown; in both
\* cases the current route points are dropped.
RouteResponse ==
    /\ measure.requests > 0
    /\ \E ok \in BOOLEAN :
          measure' = [measure EXCEPT
                          !.requests = @ - 1,
                          !.routesData = IF ok THEN @ + 1 ELSE @,
                          !.currentPoints = 0]
    /\ UNCHANGED <<dataVars, style, viewer>>

\* map.setStyle(url): the style is set and starts loading.
setStyle(st, url) == [st EXCEPT !.applied = url, !.loaded = FALSE]

\* changeMapStylePreservingPosition: nothing while a style is loading.
changeMapStylePreservingPosition(st, url) ==
    IF ~st.loaded THEN st ELSE setStyle(st, url)

\* The style of the theme alone.
ThemeStyleUrl(isDarkTheme) ==
    IF isDarkTheme THEN "darkStyleUrl" ELSE "lightStyleUrl"

\* toggle3D: flips is3D; the style is replaced only outside satellite mode.
toggle3D(st) ==
    LET currentIsSatellite == st.isSatellite
        newIs3D == ~st.is3D
        newStyleUrl == IF currentIsSatellite THEN "satelliteStyleUrl"
                       ELSE IF newIs3D THEN "outdoor3DStyleUrl"
                       ELSE ThemeStyleUrl(st.isDarkTheme)
        needsStyleChange == \/ newIs3D /\ ~currentIsSatellite
                            \/ ~newIs3D /\ ~currentIsSatellite
        flipped == [st EXCEPT !.is3D = newIs3D]
    IN  IF needsStyleChange THEN setStyle(flipped, newStyleUrl) ELSE flipped

\* toggleSatellite: flips isSatellite and always replaces the style.
toggleSatellite(st) ==
    LET was3D == st.is3D
        newIsSatellite == ~st.isSatellite
        newStyleUrl == IF was3D
                       THEN IF newIsSatellite THEN "satelliteStyleUrl"
                            ELSE "outdoor3DStyleUrl"
                       ELSE IF newIsSatellite THEN "satelliteStyleUrl"
                            ELSE ThemeStyleUrl(st.isDarkTheme)
    IN  setStyle([st EXCEPT !.isSatellite = newIsSatellite], newStyleUrl)

\* The effect on isDarkTheme: outside satellite mode a changed theme asks
\* for the theme's style.
ThemeEffect(old, st) ==
    IF old.isDarkTheme # st.isDarkTheme /\ ~st.isSatellite
    THEN changeMapStylePreservingPosition(st, ThemeStyleUrl(st.isDarkTheme))
    ELSE st

\* The 3D button.
Toggle3D ==
    /\ style' = toggle3D(style)
    /\ UNCHANGED <<dataVars, measure, viewer>>

\* The satellite button.
ToggleSatellite ==
    /\ style' = toggleSatellite(style)
    /\ UNCHANGED <<dataVars, measure, viewer>>

\* App switches the theme: the prop changes and the effect runs.
ThemeChange ==
    /\ style' = ThemeEffect(style,
                            [style EXCEPT !.isDarkTheme = ~style.isDarkTheme])
    /\ UNCHANGED <<dataVars, measure, viewer>>

\* The style that was set finishes loading.
StyleLoaded ==
    /\ ~style.loaded
    /\ style' = [style EXCEPT !.loaded = TRUE]
    /\ UNCHANGED <<dataVars, measure, viewer>>

NextMap ==
    \/ ToggleMeasurement
    \/ ToggleLineMeasurement
    \/ MeasureClick
    \/ RouteResponse
    \/ Toggle3D
    \/ ToggleSatellite
    \/ ThemeChange
    \/ StyleLoaded

SpecMap == InitMap /\ [][NextMap]_vars

---------------------------------------------------------------------------
(* SpecViewer: the HtmlViewer under App's open and close handlers.  Each   *)
(* run of loadHtmlContent is a pending fetch for the communityId of the    *)
(* render that started it; the responses arrive in any order.              *)

\* Fetches in flight at once.
MaxFetches == 2

\* The communities whose ficha the user opens.
CommunityIds == {"101", "102", "103"}

\* The text of /fichas/<id>.html.
Ficha(id) == "/fichas/" \o id \o ".html"

\* The message of the error thrown for a response that is not ok (the
\* source writes "encontro" with an accent).
NotFound(id) == "No se encontro la ficha para el ID: " \o id

InitViewer == InitMap

\* loadHtmlContent up to its await: loading, no error, a fetch in flight.
loadHtmlContent(v) ==
    [v EXCEPT !.loading = TRUE, !.error = "",
              !.pending = @ (+) SetToBag({v.communityId})]

\* The effect on [isOpen, communityId].
ViewerEffect(old, v) ==
    IF (old.isOpen # v.isOpen \/ old.communityId # v.communityId)
       /\ v.isOpen /\ v.communityId # ""
    THEN loadHtmlContent(v)
    ELSE v

\* loadHtmlContent from its await on, with no test of the communityId.
FetchCompleted(v, id, ok) ==
    [v EXCEPT !.pending = @ (-) SetToBag({id}),
              !.htmlContent = IF ok THEN Ficha(id) ELSE @,
              !.error = IF ok THEN @ ELSE NotFound(id),
              !.loading = FALSE]

\* handleOpenHtmlViewer: App opens the viewer on a community.
OpenHtmlViewer(id) ==
    /\ ~(viewer.isOpen /\ viewer.communityId = id)
    /\ BagCardinality(viewer.pending) < MaxFetches
    /\ viewer' = ViewerEffect(viewer, [viewer EXCEPT !.isOpen = TRUE,
                                                     !.communityId = id])
    /\ UNCHANGED <<dataVars, measure, style>>

\* handleCloseHtmlViewer: App closes the viewer and forgets the community.
CloseHtmlViewer ==
    /\ viewer.isOpen
    /\ viewer' = ViewerEffect(viewer, [viewer EXCEPT !.isOpen = FALSE,
                                                     !.communityId = ""])
    /\ UNCHANGED <<dataVars, measure, style>>

\* The response to a pending fetch arrives, found or not.
FetchResponse(id) ==
    /\ BagIn(id, viewer.pending)
    /\ \E ok \in BOOLEAN : viewer' = FetchCompleted(viewer, id, ok)
    /\ UNCHANGED <<dataVars, measure, style>>

NextViewer ==
    \/ \E id \in CommunityIds : OpenHtmlViewer(id)
    \/ CloseHtmlViewer
    \/ \E id \in CommunityIds : FetchResponse(id)

SpecViewer == InitViewer /\ [][NextViewer]_vars

---------------------------------------------------------------------------
(* Claims about the reconciler (SpecSync) and the Sidebar (Spec)           *)

\* The state records an application of synchronizeFilters.
Synced == call.op = "synchronizeFilters"
IndexLoaded == HasData(extractedData)
LoadedFeatures == IF IndexLoaded THEN Features(extractedData) ELSE {}

\* The compatibility primitive of the specification: the feature agrees
\* with every non-empty facet value given.
Agrees(p, e, m, c, pu) ==
    /\ (e = "" \/ p.NOM_ENT = e)
    /\ (m = "" \/ p.NOM_MUN = m)
    /\ (c = "" \/ ComunidadOf(p) = c)
    /\ (pu = "" \/ p.Pueblo = pu)

SomeFeatureAgrees(e, m, c, pu) ==
    \E p \in LoadedFeatures : Agrees(p, e, m, c, pu)

\* Hierarchical containment of a selection in an index.
Contained(f, d) ==
    /\ f.municipio # "" =>
          /\ f.entidad # ""
          /\ f.municipio \in MapGet(d.municipiosPorEntidad, f.entidad)
    /\ f.comunidad # "" =>
          /\ f.entidad # "" /\ f.municipio # ""
          /\ f.comunidad \in MapGet(d.comunidadesPorMunicipio,
                                    MunicipioKey(f.entidad, f.municipio))

\* C1: for every index, input selection and edit, the selection returned by
\* synchronizeFilters satisfies hierarchical containment.
C1_ReconcilerContainment ==
    (Synced /\ IndexLoaded) => Contained(call.out, extractedData[1])

\* The Sidebar has rendered and no effect is left to run.
Settled == ~pendingRender

\* C2: once the effects have settled, the Sidebar selection satisfies
\* hierarchical containment in the loaded index.
C2_SidebarContainment ==
    (Settled /\ IndexLoaded) => Contained(filters, extractedData[1])

\* C3 as stated: a state edit always returns state = newValue with
\* municipality and community empty, and a set people value is kept exactly
\* when some feature has state = newValue and that people value.
C3_StateEditAlways ==
    (Synced /\ call.field = "entidad") =>
        /\ call.out.entidad = call.value
        /\ call.out.municipio = "" /\ call.out.comunidad = ""
        /\ call.cur.pueblo # "" =>
              call.out.pueblo =
                  IF \E p \in LoadedFeatures :
                        p.NOM_ENT = call.value /\ p.Pueblo = call.cur.pueblo
                  THEN call.cur.pueblo ELSE ""

\* C3 amended: the same, provided an index is loaded.
C3_StateEditWithIndex == IndexLoaded => C3_StateEditAlways

\* C3 witness: with an index loaded, a state edit that kept the people value
\* while it cleared a set municipality and community.
C3_Witness ==
    /\ Synced /\ IndexLoaded /\ call.field = "entidad" /\ call.value = "E2"
    /\ call.cur.entidad = "E1" /\ call.cur.municipio = "M1"
    /\ call.cur.comunidad = "C1" /\ call.cur.pueblo = "P1"
    /\ call.out = [entidad |-> "E2", municipio |-> "", comunidad |-> "",
                   pueblo |-> "P1"]

\* C4: a municipality edit empties community and leaves state unchanged, and
\* a set people value is kept exactly when some feature matches (state, new
\* municipality, people), for every input selection.  Stated for non-empty
\* new values, an empty state being no constraint.
C4_MunicipalityEdit ==
    (Synced /\ IndexLoaded /\ call.field = "municipio" /\ call.value # "") =>
        /\ call.out.comunidad = ""
        /\ call.out.entidad = call.cur.entidad
        /\ Trim(call.cur.pueblo) # "" =>
              call.out.pueblo =
                  IF SomeFeatureAgrees(call.cur.entidad, call.value, "",
                                       call.cur.pueblo)
                  THEN call.cur.pueblo ELSE ""

\* C5: after a community edit a set people value is kept exactly when some
\* feature matches (state, municipality, new community, people), for every
\* input selection.  Stated for non-empty new values, an empty state or
\* municipality being no constraint.
C5_CommunityEdit ==
    (Synced /\ IndexLoaded /\ call.field = "comunidad" /\ call.value # ""
        /\ Trim(call.cur.pueblo) # "") =>
        call.out.pueblo =
            IF SomeFeatureAgrees(call.cur.entidad, call.cur.municipio,
                                 call.value, call.cur.pueblo)
            THEN call.cur.pueblo ELSE ""

\* The top-down cascade of rule 4 applied to a selection.
CascadeOf(cur, P) ==
    IF cur.entidad # "" /\ ~SomeFeatureAgrees(cur.entidad, "", "", P)
    THEN [entidad |-> "", municipio |-> "", comunidad |-> "", pueblo |-> P]
    ELSE IF cur.municipio # ""
            /\ ~SomeFeatureAgrees(cur.entidad, cur.municipio, "", P)
    THEN [cur EXCEPT !.municipio = "", !.comunidad = "", !.pueblo = P]
    ELSE IF cur.comunidad # ""
            /\ ~SomeFeatureAgrees(cur.entidad, cur.municipio, cur.comunidad, P)
    THEN [cur EXCEPT !.comunidad = "", !.pueblo = P]
    ELSE [cur EXCEPT !.pueblo = P]

HasHierarchy(f) == f.entidad # "" \/ f.municipio # "" \/ f.comunidad # ""

\* C6: a people edit to a non-blank value P returns the top-down cascade of
\* the selection with people = P, and a result with a hierarchical facet set
\* is matched by at least one feature.
C6_PeopleCascade ==
    (Synced /\ IndexLoaded /\ call.field = "pueblo" /\ Trim(call.value) # "") =>
        /\ call.out = CascadeOf(call.cur, call.value)
        /\ call.out.pueblo = call.value
        /\ HasHierarchy(call.out) =>
              SomeFeatureAgrees(call.out.entidad, call.out.municipio,
                                call.out.comunidad, call.out.pueblo)

\* C7: a people edit never fills the hierarchy: each of state, municipality
\* and community is, after the edit, its value before the edit or empty.
C7_NoAutoFill ==
    (Synced /\ call.field = "pueblo") =>
        \A h \in {"entidad", "municipio", "comunidad"} :
            call.out[h] \in {call.cur[h], ""}

\* C7 witness: people set alone on an empty selection, and accepted.
C7_Witness ==
    /\ Synced /\ IndexLoaded /\ call.field = "pueblo" /\ call.value = "P1"
    /\ call.cur = EmptyFilters
    /\ call.out = [EmptyFilters EXCEPT !.pueblo = "P1"]

\* C8: editing people to the empty value leaves state, municipality and
\* community as they were.
C8_ClearPeopleKeepsHierarchy ==
    (Synced /\ call.field = "pueblo" /\ call.value = "") =>
        /\ call.out.entidad = call.cur.entidad
        /\ call.out.municipio = call.cur.municipio
        /\ call.out.comunidad = call.cur.comunidad

\* C8 witness: people cleared on a full selection.
C8_Witness ==
    /\ Synced /\ IndexLoaded /\ call.field = "pueblo" /\ call.value = ""
    /\ call.cur = [entidad |-> "E1", municipio |-> "M1", comunidad |-> "C1",
                   pueblo |-> "P1"]
    /\ call.out = [call.cur EXCEPT !.pueblo = ""]

\* C9: an empty facet value is no constraint: emptying state, municipality
\* or community leaves a people value unchanged when some feature carries
\* it and agrees with the hierarchical facets that remain.
C9_EmptyIsNoConstraint ==
    (Synced /\ IndexLoaded /\ call.field # "pueblo" /\ call.value = ""
        /\ Trim(call.cur.pueblo) # ""
        /\ SomeFeatureAgrees(call.out.entidad, call.out.municipio,
                             call.out.comunidad, call.cur.pueblo)) =>
        call.out.pueblo = call.cur.pueblo

\* The filter effect has run on the current selection.
Filtered == call.op = "applyFilters"

\* C10: on every feature the layer filter expression, the feature filter of
\* applyFilterZoom and the count predicate of getFilteredCount agree.
C10_FiltersAgree ==
    Filtered =>
        \A p \in LoadedFeatures :
            /\ LayerShows(layerFilter, p) = CountAccepts(p, filters)
            /\ (p \in zoomFeatures) = CountAccepts(p, filters)

\* No render is queued and no timer is pending.
Quiescent == ~pendingRender /\ debounce = <<>> /\ forced = EmptyBag

\* C11: once every pending timer has fired, the selection App holds and
\* passes to the Map equals the selection the Sidebar holds and counts with.
C11_PublishedSelectionSettles == Quiescent => appFilters = filters

\* C11 witness: all timers fired after the Sidebar chose a state and a
\* municipality, and App holds that selection.
C11_Witness ==
    /\ Quiescent /\ IndexLoaded
    /\ filters = [entidad |-> "E1", municipio |-> "M1", comunidad |-> "",
                  pueblo |-> ""]
    /\ appFilters = filters

\* extractLayerData has run on rawFeatures.
Extracted == call.op = "extractLayerData"
KeptFeatures == extractedData[1].features

\* Position i of the list holds a record with no id, or the first record
\* with its id.
FirstOfId(raw, i) ==
    \/ FeatureId(raw[i]) = ""
    \/ \A j \in 1..(i - 1) : FeatureId(raw[j]) # FeatureId(raw[i])

KeptPositions(raw) == {i \in 1..Len(raw) : FirstOfId(raw, i)}

\* The n-th smallest member of a set of positions.
NthOf(K, n) == CHOOSE i \in K : Cardinality({j \in K : j < i}) = n - 1

\* C12: the features of the index are, in input order, the records with no
\* id and the first record of each id.
C12_Deduplication ==
    Extracted =>
        LET K == KeptPositions(rawFeatures)
        IN  KeptFeatures = [n \in 1..Cardinality(K) |-> rawFeatures[NthOf(K, n)]]

\* C12 witness: of two different records with one id the first is kept.
C12_Witness ==
    /\ Extracted /\ Len(rawFeatures) = 2
    /\ FeatureId(rawFeatures[1]) = "1" /\ FeatureId(rawFeatures[2]) = "1"
    /\ rawFeatures[1] # rawFeatures[2]
    /\ KeptFeatures = <<rawFeatures[1]>>

\* Two indexes hold the same states, peoples and maps.
SameIndex(a, b) ==
    /\ a.entidades = b.entidades
    /\ a.pueblos = b.pueblos
    /\ a.municipiosPorEntidad = b.municipiosPorEntidad
    /\ a.comunidadesPorMunicipio = b.comunidadesPorMunicipio

\* C13: a second build from the same list, or from the de-duplicated
\* features of the build before, yields the same index.
C13_IndexIsPure ==
    (Extracted /\ HasData(call.prev)
        /\ call.how \in {"same", "deduplicated"}) =>
        /\ SameIndex(extractedData[1], call.prev[1])
        /\ KeptFeatures = call.prev[1].features

\* C13 witness: the index was rebuilt from features that had lost a
\* duplicate with other facet values.
C13_Witness ==
    /\ Extracted /\ HasData(call.prev) /\ call.how = "deduplicated"
    /\ Len(call.prevRaw) = 2 /\ Len(rawFeatures) = 1
    /\ call.prevRaw[1].NOM_ENT # call.prevRaw[2].NOM_ENT

\* The facet text extractLayerData reads: missing is empty, blanks trimmed.
FacetText(v) == Trim(Or(v, ""))

\* C14: the index holds exactly the non-empty facet texts of the kept
\* features: states; municipalities under their state; communities (or
\* localities) under their state and municipality; peoples of all kept
\* features, whatever their state.
C14_IndexContents ==
    Extracted =>
        LET d    == extractedData[1]
            kept == Range(d.features)
            muns(e) == {FacetText(f.NOM_MUN) :
                          f \in {g \in kept : FacetText(g.NOM_ENT) = e}} \ {""}
            coms(e, m) ==
                {FacetText(ComunidadOf(f)) :
                    f \in {g \in kept : /\ FacetText(g.NOM_ENT) = e
                                        /\ FacetText(g.NOM_MUN) = m}} \ {""}
        IN  /\ d.entidades = {FacetText(f.NOM_ENT) : f \in kept} \ {""}
            /\ d.pueblos = {FacetText(f.Pueblo) : f \in kept} \ {""}
            /\ DOMAIN d.municipiosPorEntidad =
                  {e \in d.entidades : muns(e) # {}}
            /\ \A e \in DOMAIN d.municipiosPorEntidad :
                  d.municipiosPorEntidad[e] = muns(e)
            /\ DOMAIN d.comunidadesPorMunicipio =
                  UNION {{MunicipioKey(e, m) :
                            m \in {n \in muns(e) : coms(e, n) # {}}} :
                         e \in d.entidades}
            /\ \A e \in d.entidades : \A m \in muns(e) :
                  MapGet(d.comunidadesPorMunicipio, MunicipioKey(e, m)) =
                      coms(e, m)

\* C14 witness: a kept feature without state gave its people to the index,
\* next to a feature that gave a state, a municipality and a community.
C14_Witness ==
    /\ Extracted
    /\ \E f \in Range(KeptFeatures) :
          FacetText(f.NOM_ENT) = "" /\ f.Pueblo = "P1"
    /\ extractedData[1].pueblos = {"P1"}
    /\ extractedData[1].entidades = {"E2"}
    /\ MapGet(extractedData[1].comunidadesPorMunicipio, "E2|M1") = {"C2"}

\* C15 as stated: the count of every selection is the same on the index of
\* a re-ordered list.
C15_CountOrderInvariant ==
    (Extracted /\ HasData(call.prev) /\ call.how = "reordered") =>
        \A sel \in FilterSelections :
            getFilteredCount(sel, extractedData) =
                getFilteredCount(sel, call.prev)

\* Records of the list that share an id carry the same properties.
DuplicatesAgree(raw) ==
    \A i, j \in 1..Len(raw) :
        (FeatureId(raw[i]) # "" /\ FeatureId(raw[i]) = FeatureId(raw[j])) =>
            \A k \in {ENT_KEY, MUN_KEY, COM_KEY, LOC_KEY, PUE_KEY} :
                raw[i][k] = raw[j][k]

\* C15 amended: the same, for lists whose records sharing an id agree.
C15_CountOrderInvariantAgreeing ==
    DuplicatesAgree(rawFeatures) => C15_CountOrderInvariant

\* C15 witness: two records with different states and no id in two orders,
\* one of them counted for the state E1.
C15_Witness ==
    /\ Extracted /\ HasData(call.prev) /\ call.how = "reordered"
    /\ Len(rawFeatures) = 2
    /\ rawFeatures[1].NOM_ENT = "E1" /\ rawFeatures[2].NOM_ENT = " E2"
    /\ FeatureId(rawFeatures[1]) = "" /\ FeatureId(rawFeatures[2]) = ""
    /\ getFilteredCount([EmptyFilters EXCEPT !.entidad = "E1"], extractedData) = 1

\* The count was recomputed after one empty facet received a value.
Narrowed == call.op = "getFilteredCount"

\* C16: setting one empty facet to a non-empty value never increases the
\* count.
C16_MonotonicNarrowing == Narrowed => call.after <= call.before

\* Beside a blank state text, a value that leaves some features out and
\* keeps some.
C16_Witness ==
    /\ Narrowed
    /\ call.after >= 1
    /\ call.after < call.before
    /\ filters.entidad = " "

\* An offered entry was picked and reconciled.
Picked == call.op = "pick"

\* C17: picking an offered value of a facet yields a selection that holds
\* the value and that at least one feature matches.
C17_NoDeadEnd ==
    (Picked /\ call.value # "") =>
        /\ call.out[call.field] = call.value
        /\ call.count >= 1

\* The kept features that carry every given facet value.
FeaturesWith(data, e, m, c, p) ==
    {q \in Features(data) :
        /\ e # "" => q.NOM_ENT = e
        /\ m # "" => q.NOM_MUN = m
        /\ c # "" => ComunidadOf(q) = c
        /\ p # "" => q.Pueblo = p}

\* The state options C18 describes.
StateOptions(f, data) ==
    IF f.pueblo = "" THEN data[1].entidades
    ELSE {e \in data[1].entidades : FeaturesWith(data, e, "", "", f.pueblo) # {}}

\* The municipality options C18 describes.
MunicipalityOptions(f, data) ==
    IF f.entidad = "" THEN {}
    ELSE {m \in MapGet(data[1].municipiosPorEntidad, f.entidad) :
            f.pueblo # "" => FeaturesWith(data, f.entidad, m, "", f.pueblo) # {}}

\* The community options C18 describes.
CommunityOptions(f, data) ==
    IF f.entidad = "" \/ f.municipio = "" THEN {}
    ELSE {c \in MapGet(data[1].comunidadesPorMunicipio,
                       MunicipioKey(f.entidad, f.municipio)) :
            f.pueblo # "" =>
                FeaturesWith(data, f.entidad, f.municipio, c, f.pueblo) # {}}

\* C18: the state, municipality and community option lists are the index
\* entries of the selected parent, restricted to the selected people when
\* one is selected, and empty when the parent is not selected.
C18_HierarchicalOptions ==
    Picked =>
        /\ call.options.entidad = StateOptions(call.out, extractedData)
        /\ call.options.municipio = MunicipalityOptions(call.out, extractedData)
        /\ call.options.comunidad = CommunityOptions(call.out, extractedData)

\* The people options C19 describes.
PeopleOptions(f, data) ==
    IF f.entidad = "" /\ f.municipio = "" /\ f.comunidad = ""
    THEN data[1].pueblos
    ELSE {q.Pueblo : q \in {r \in FeaturesWith(data, f.entidad, f.municipio,
                                               f.comunidad, "") :
                                r.Pueblo \notin {"", Undefined}}}

\* C19: the people option list is the peoples set of the index when no
\* hierarchical facet is selected, otherwise the people values of the
\* features carrying every selected hierarchical facet; the selected
\* people does not change it.
C19_PeopleOptions ==
    Picked =>
        /\ call.options.pueblo = PeopleOptions(call.out, extractedData)
        /\ \A p \in {""} \cup extractedData[1].pueblos :
              filteredPueblosByHierarchy([call.out EXCEPT !.pueblo = p],
                                         extractedData) = call.options.pueblo

\* A people selected under a municipality that leaves another people of
\* the index out of the list.
C19_Witness ==
    /\ Picked
    /\ call.out.municipio # ""
    /\ call.out.pueblo # ""
    /\ call.options.pueblo # {}
    /\ call.options.pueblo # extractedData[1].pueblos

\* applyFilterZoom ran and called map.fitBounds.
Fitted == call.op = "applyFilters" /\ call.fit # <<>>

\* The four tiers C20 lists.
Tier(maxZoom, side, right) ==
    [maxZoom |-> maxZoom,
     padding |-> [top |-> side, bottom |-> side, left |-> side, right |-> right]]

\* C20: the viewport options are those of the most specific selected
\* hierarchical facet, community before municipality before state, one of
\* four tiers, and the right padding exceeds the other three.
C20_ViewportTiers ==
    Fitted =>
        LET o == call.fit[1] IN
        /\ o = IF filters.comunidad # "" THEN Tier(16, 100, 400)
               ELSE IF filters.municipio # "" THEN Tier(12, 80, 380)
               ELSE IF filters.entidad # "" THEN Tier(9, 60, 360)
               ELSE Tier(16, 50, 350)
        /\ o.padding.right > o.padding.top
        /\ o.padding.right > o.padding.bottom
        /\ o.padding.right > o.padding.left

\* A state and a municipality selected with no community: the municipality
\* decides.
C20_Witness ==
    /\ Fitted
    /\ filters.entidad # ""
    /\ filters.municipio # ""
    /\ filters.comunidad = ""
    /\ call.fit[1].maxZoom = 12

\* applyFilterZoom ran, with or without a call of map.fitBounds.
Zoomed == call.op = "applyFilters"

\* Two selections with the same hierarchical facets left empty.
SameDepth(f, g) ==
    /\ (f.entidad = "") = (g.entidad = "")
    /\ (f.municipio = "") = (g.municipio = "")
    /\ (f.comunidad = "") = (g.comunidad = "")

\* C21 as stated: every selection with the same hierarchical facets set
\* receives the same viewport options, whatever its people and however
\* many features match it, none included; people alone receives the tier
\* of the empty selection.
C21_DepthOnly ==
    Zoomed =>
        /\ \A g \in FilterSelections :
              SameDepth(g, filters) => fitBounds(g, extractedData) = call.fit
        /\ (filters.entidad = "" /\ filters.municipio = ""
                /\ filters.comunidad = "") =>
              call.fit = <<Tier(16, 50, 350)>>

\* C21 for selections that match a feature: every selection with the same
\* hierarchical facets set that matches at least one feature receives the
\* same viewport options, whatever its people and however many features
\* match; people alone receives the tier of the empty selection.
C21_DepthOnlyWhenMatching ==
    Fitted =>
        /\ \A g \in FilterSelections :
              (SameDepth(g, filters) /\ fitBounds(g, extractedData) # <<>>)
                  => fitBounds(g, extractedData) = call.fit
        /\ (filters.entidad = "" /\ filters.municipio = ""
                /\ filters.comunidad = "") =>
              call.fit = <<Tier(16, 50, 350)>>

\* A people-only selection that matches one feature of two, while the
\* empty selection matches both.
C21_Witness ==
    /\ Fitted
    /\ filters = [EmptyFilters EXCEPT !.pueblo = "P1"]
    /\ Cardinality(zoomFeatures) = 1
    /\ Cardinality(applyFilterZoom(EmptyFilters, extractedData)) = 2

\* The selection after people = Tzotzil was reconciled from the empty one.
OnlyTzotzil == [EmptyFilters EXCEPT !.pueblo = "Tzotzil"]

\* C22: on the index of F1, F2, F3, reconciling people = Tzotzil from the
\* empty selection and then state = Oaxaca ends with state Oaxaca alone,
\* the people cleared, and a count of 2.
C22_Scenario ==
    /\ (call.op = "edit" /\ call.cur = EmptyFilters /\ call.field = "pueblo"
            /\ call.value = "Tzotzil") => call.out = OnlyTzotzil
    /\ (call.op = "edit" /\ call.cur = OnlyTzotzil /\ call.field = "entidad"
            /\ call.value = "Oaxaca") =>
          /\ call.out = [EmptyFilters EXCEPT !.entidad = "Oaxaca"]
          /\ filters = call.out
          /\ call.count = 2

\* The second edit of the scenario was applied to the result of the first.
C22_Witness ==
    /\ call.op = "edit"
    /\ call.cur = OnlyTzotzil
    /\ call.field = "entidad"
    /\ call.value = "Oaxaca"
    /\ filters.entidad = "Oaxaca"

\* A selection whose every non-empty facet is in the index, each below its
\* parent.
ValidAgainst(f, d) ==
    /\ Contained(f, d)
    /\ f.entidad # "" => f.entidad \in d.entidades
    /\ f.pueblo # "" => f.pueblo \in d.pueblos

\* The render that follows a change of the index: its validation effect is
\* the one that runs validateFilters.
ValidationPass == pendingRender /\ ~prevDeps.sameData /\ IndexLoaded

\* C23: the selection the validation pass leaves, after the index was
\* replaced, is contained in the new index and holds only values of the
\* new index.
C23_ValidationContainment ==
    [][ValidationPass => ValidAgainst(filters', extractedData[1])]_vars

\* C24: after the validation pass, a selection with a people and a
\* hierarchical facet is matched by at least one feature of the new index.
C24_ValidationCompatibility ==
    [][(ValidationPass /\ filters'.pueblo # "" /\ HasHierarchy(filters'))
          => SomeFeatureAgrees(filters'.entidad, filters'.municipio,
                               filters'.comunidad, filters'.pueblo)]_vars

\* The initial load has nothing left to run.
LoadDone ==
    /\ ~loader.tryExtractData /\ loader.extractTimers = 0
    /\ ~loader.idleArmed /\ ~loader.idleTimer

\* C25: the initial load publishes the index to the sidebar exactly once:
\* never twice, and once when nothing is left to run.
C25_PublishedOnce ==
    /\ loader.published <= 1
    /\ LoadDone => loader.published = 1

\* C27: the initial load runs extractLayerData at most 10 times.
C27_GivesUpAfterTen == loader.runs <= 10

\* A record none of whose four facet fields holds a text.
AllBlank(f) ==
    /\ FacetText(f.NOM_ENT) = "" /\ FacetText(f.NOM_MUN) = ""
    /\ FacetText(Or(f.NOM_COM, f.NOM_LOC)) = "" /\ FacetText(f.Pueblo) = ""

\* C26: the build succeeds on malformed records; a record with no facet
\* text and no id is kept in features; no empty text enters the index, as a
\* value or as a key; and every municipality and community of the index is
\* filed under the state of a kept feature that names that state, so that a
\* record with a blank state adds no municipality and no community.
C26_MalformedTolerated ==
    Extracted =>
        LET d    == extractedData[1]
            kept == Range(KeptFeatures)
        IN  /\ HasData(extractedData)
            /\ \A i \in 1..Len(rawFeatures) :
                  (AllBlank(rawFeatures[i]) /\ FeatureId(rawFeatures[i]) = "")
                      => rawFeatures[i] \in kept
            /\ "" \notin d.entidades
            /\ "" \notin d.pueblos
            /\ \A e \in DOMAIN d.municipiosPorEntidad :
                  /\ e \in d.entidades
                  /\ \A m \in d.municipiosPorEntidad[e] :
                        /\ m # ""
                        /\ \E f \in kept : /\ FacetText(f.NOM_ENT) = e
                                           /\ FacetText(f.NOM_MUN) = m
            /\ \A k \in DOMAIN d.comunidadesPorMunicipio :
                  \A c \in d.comunidadesPorMunicipio[k] :
                      /\ c # ""
                      /\ \E f \in kept :
                            /\ FacetText(f.NOM_ENT) # ""
                            /\ FacetText(f.NOM_MUN) # ""
                            /\ k = MunicipioKey(FacetText(f.NOM_ENT),
                                                FacetText(f.NOM_MUN))
                            /\ FacetText(Or(f.NOM_COM, f.NOM_LOC)) = c

\* A record with missing properties next to a record with a municipality,
\* a community and a people but no state: both kept, only the people
\* indexed.
C26_Witness ==
    /\ Extracted
    /\ MissingProperties \in Range(KeptFeatures)
    /\ \E f \in Range(KeptFeatures) :
          /\ FacetText(f.NOM_ENT) = ""
          /\ f.NOM_MUN = "M1" /\ f.NOM_COM = "C1"
    /\ extractedData[1].entidades = {}
    /\ DOMAIN extractedData[1].municipiosPorEntidad = {}
    /\ DOMAIN extractedData[1].comunidadesPorMunicipio = {}
    /\ extractedData[1].pueblos = {"P1"}

\* C28: reconciling the same edit a second time, on the result of the
\* first, returns that result.
C28_Idempotent ==
    Synced =>
        synchronizeFilters(call.field, call.value, call.out, extractedData)
            = call.out

\* A state edit that cleared the municipality, the community and the
\* people of the selection it was applied to.
C28_Witness ==
    /\ Synced /\ IndexLoaded
    /\ call.field = "entidad" /\ call.value = "E2"
    /\ call.cur.municipio # "" /\ call.cur.comunidad # ""
    /\ call.cur.pueblo # ""
    /\ call.out = [EmptyFilters EXCEPT !.entidad = "E2"]

\* C29: every selection reached from the empty one by picking offered
\* entries or by emptying a facet is matched by at least one feature.
C29_NeverZeroResults ==
    /\ Picked => call.count >= 1
    /\ \A field \in Fields :
          getFilteredCount(synchronizeFilters(field, "", filters,
                                              extractedData),
                           extractedData) >= 1

\* C30: with an index loaded, a municipality edit leaves the state as it
\* was, a community edit leaves the state and the municipality as they
\* were, and every edit returns the edited facet with its new value.
C30_UpwardFrame ==
    (Synced /\ IndexLoaded) =>
        /\ call.field = "municipio" => call.out.entidad = call.cur.entidad
        /\ call.field = "comunidad" =>
              /\ call.out.entidad = call.cur.entidad
              /\ call.out.municipio = call.cur.municipio
        /\ call.out[call.field] = call.value

\* A community edit that cleared the people and kept the state and the
\* municipality.
C30_Witness ==
    /\ Synced /\ IndexLoaded
    /\ call.field = "comunidad" /\ call.value # ""
    /\ call.cur.entidad # "" /\ call.cur.municipio # ""
    /\ call.cur.pueblo # "" /\ call.out.pueblo = ""
    /\ call.out.entidad = call.cur.entidad
    /\ call.out.municipio = call.cur.municipio

C32_NoIndexNoChange ==
    (Synced /\ ~IndexLoaded) =>
        /\ call.out = call.cur
        /\ call.validated = call.cur

\* With no index, an edit of the state of a full selection was dropped.
C32_Witness ==
    /\ Synced /\ ~IndexLoaded
    /\ call.field = "entidad" /\ call.value = "E2"
    /\ call.cur = [entidad |-> "E1", municipio |-> "M1", comunidad |-> "C1",
                   pueblo |-> "P1"]
    /\ filters = call.cur

\* C33: in the index extractLayerData builds, every key of
\* municipiosPorEntidad is a state of the index, every key of
\* comunidadesPorMunicipio is state|municipality for a municipality filed
\* under that state, and no set stored in either map is empty.
C33_IndexStructure ==
    Extracted =>
        LET d == extractedData[1]
        IN  /\ \A e \in DOMAIN d.municipiosPorEntidad :
                  /\ e \in d.entidades
                  /\ d.municipiosPorEntidad[e] # {}
            /\ \A k \in DOMAIN d.comunidadesPorMunicipio :
                  /\ \E e \in DOMAIN d.municipiosPorEntidad :
                        \E m \in d.municipiosPorEntidad[e] :
                            k = MunicipioKey(e, m)
                  /\ d.comunidadesPorMunicipio[k] # {}

\* An index with a state that has a municipality and a community, and a
\* state that has none: its record names a community but no municipality.
C33_Witness ==
    /\ Extracted
    /\ extractedData[1].entidades = {"E1", "E2"}
    /\ DOMAIN extractedData[1].municipiosPorEntidad = {"E2"}
    /\ DOMAIN extractedData[1].comunidadesPorMunicipio = {"E2|M1"}
    /\ \E f \in Range(KeptFeatures) :
          f.NOM_ENT = "E1" /\ f.NOM_MUN = " " /\ f.NOM_COM = "C1"

C35_NothingStoredWhenOff ==
    (~measure.isMeasuring /\ ~measure.isMeasuringLine) =>
        /\ measure.routesData = 0
        /\ measure.linesData = 0

\* C36: the two measurement modes are never on together, and each pair of
\* current points holds at most two points.
C36_ModesExclusive ==
    /\ ~(measure.isMeasuring /\ measure.isMeasuringLine)
    /\ measure.currentPoints <= 2
    /\ measure.currentLinePoints <= 2

\* The route mode was switched on from the line mode with a line stored,
\* and holds a complete pair whose request is in flight.
C36_Witness ==
    /\ measure.isMeasuring
    /\ measure.currentPoints = 2
    /\ measure.requests = 1
    /\ measure.linesData = 1

\* C37: the style last set is the one getCurrentStyleUrl gives for the
\* current satellite, 3D and theme flags.
C37_StyleMatchesFlags ==
    style.applied =
        getCurrentStyleUrl(style.isSatellite, style.is3D, style.isDarkTheme)

\* C38: once every pending fetch has completed, the open viewer shows the
\* ficha fetched for the current communityId, or the error of that fetch;
\* and a response for another communityId changes neither the content nor
\* the error.
C38_CurrentFicha ==
    /\ []((viewer.isOpen /\ viewer.pending = EmptyBag) =>
              IF viewer.error = ""
              THEN viewer.htmlContent = Ficha(viewer.communityId)
              ELSE viewer.error = NotFound(viewer.communityId))
    /\ [][\A id \in CommunityIds :
             (FetchResponse(id) /\ id # viewer.communityId) =>
                 /\ viewer'.htmlContent = viewer.htmlContent
                 /\ viewer'.error = viewer.error]_vars

=============================================================================
